---- MODULE Spec2Model ----
(***************************************************************************)
(* Shared-memory UART transport of the Proxmark3 web client:               *)
(*   - UartShared (src/src/lib/pm3WebUSB.ts): three ring buffers (RX, TX,  *)
(*     Stdin) living in the WASM heap, bound by init(module);              *)
(*   - PM3WebUSB (same file): the serial connection and its pump loops;    *)
(*   - useProxmarkWasm (src/src/hooks/useProxmarkWasm.ts): runtime start,  *)
(*     the command adapter, the output buffer, connectDevice;              *)
(*   - useWebSerial (src/src/hooks/useWebSerial.ts): the direct serial     *)
(*     hook;                                                               *)
(*   - App (src/src/App.tsx): the connect handlers and the mode buttons.   *)
(* The consumer module (the WASM program) is not part of the sources: its  *)
(* side of every channel is modelled from the written contract.            *)
(***************************************************************************)
EXTENDS Integers, Sequences, FiniteSets, TLC

(* ------------------------------ bounds -------------------------------- *)

\* Width in bits of the head/tail counters of the model (32 in the program).
CounterBits == 3

\* Longest byte sequence handed to one push, largest maxBytes / out length of a pop.
MaxLen == 3

\* Bytes offered to the three channels together during one behaviour.
MaxOffered == 6

\* Bytes offered to the three channels together when calls are taken whole.
MaxSent == 3

\* Accessors the module may lack, besides any part of the optional Stdin triple.
MaxMissing == 1

\* connect() calls, and disconnect() calls, made during one behaviour.
MaxConnects == 2
MaxDisconnects == 2

\* Bytes the device and the module offer together while a connection is followed.
MaxPumped == 2

\* Codes the module writes to its output during one behaviour, newlines among them.
MaxEmitted == 103
MaxNewlines == 1

RECURSIVE Pow2(_)
Pow2(n) == IF n = 0 THEN 1 ELSE 2 * Pow2(n - 1)

\* The counters wrap modulo Modulus (`>>> 0` in the program).
Modulus == Pow2(CounterBits)

\* Ring capacities the module may report (powers of two).
Capacities == {2, 4}

MaxCapacity == CHOOSE c \in Capacities : \A d \in Capacities : d <= c

\* Values head = tail may have when a behaviour starts: a fresh module, and a
\* module whose counters are about to wrap.
StartCounters == {0, Modulus - 1}

Min(a, b) == IF a < b THEN a ELSE b

(* ------------------------- the consumer module ------------------------ *)

Channels == {"rx", "tx", "stdin"}

Undef == "undefined"

\* Accessor functions the module is expected to export.
Accessors ==
    {"rb_capacity",
     "rx_head_ptr", "rx_tail_ptr", "rx_buf_ptr",
     "tx_head_ptr", "tx_tail_ptr", "tx_buf_ptr",
     "stdin_head_ptr", "stdin_tail_ptr", "stdin_buf_ptr"}

RequiredAccessors ==
    {"rb_capacity",
     "rx_head_ptr", "rx_tail_ptr", "rx_buf_ptr",
     "tx_head_ptr", "tx_tail_ptr", "tx_buf_ptr"}

StdinAccessors == {"stdin_head_ptr", "stdin_tail_ptr", "stdin_buf_ptr"}

\* Word addresses of the counters and byte regions of the buffers.  A pointer
\* accessor returns the address of its word or region.
HeadWord(c) == c \o "_head"
TailWord(c) == c \o "_tail"
Words == {HeadWord(c) : c \in Channels} \cup {TailWord(c) : c \in Channels}
Regions == Channels \cup {"low"}

VARIABLES
    module,       \* the consumer module: what it exports, its capacity
    runtime,      \* "loading", or "initialized" once onRuntimeInitialized was called
    isReady,      \* useProxmarkWasm: isReady
    uart,         \* the fields of the UartShared singleton
    heap,         \* the WASM heap: counter words (U32) and byte regions (U8)
    bindCount,    \* history: number of init() calls that ran to the end
    initResult,   \* history: how the last init() call ended
    frame,        \* main thread: the ring operation in progress
    wframe,       \* consumer module: the ring operation in progress
    offered,      \* history: bytes offered to each channel so far
    accepted,     \* history: bytes published to each channel, in order
    popped,       \* history: bytes taken from each channel, in order
    origin,       \* history: the value of every counter when the behaviour started
    focus,        \* the channel whose operations are taken step by step, or "all"
    serial,       \* 'serial' in navigator
    usb,          \* the fields of the PM3WebUSB singleton
    port,         \* the SerialPort picked last: its state, the opens so far, who picked it
    ends,         \* per open of the port: its two streams, their reader and writer
    conn,         \* the connect() call in flight, and how the last one ended
    disc,         \* the disconnect() call in flight, and how the last one ended
    rloop,        \* per open of the port: where its startReadLoop() stands
    tloop,        \* per open of the port: where its startTxLoop() stands
    written,      \* history: bytes the device has accepted, in order
    connectionMode, \* App: "wasm" (PM3WebUSB is the transport) or "serial" (useWebSerial)
    hook,         \* useWebSerial: its state, its refs, its calls and read loops
    app,          \* App and useProxmarkWasm: isDeviceConnected, the handlers in flight
    stdio         \* useProxmarkWasm: the output buffer, what onOutput was given

\* What the page holds besides the channels and the two transports.
pageVars == <<serial, app, stdio>>
ringVars == <<frame, wframe, offered, accepted, popped>>
hookVars == <<connectionMode, hook>>
connVars == <<pageVars, usb, port, ends, conn, disc, rloop, tloop, written, hookVars>>
bindVars == <<module, runtime, isReady, uart, bindCount, initResult, origin, focus,
              connVars>>

vars == <<module, runtime, isReady, uart, heap, bindCount, initResult,
          frame, wframe, offered, accepted, popped, origin, focus, connVars>>

(* --------------------------- UartShared.init -------------------------- *)

\* The fields of a freshly constructed UartShared: all undefined.
UartFields ==
    {"rxHeadIdx", "rxTailIdx", "rxBufByteOffset",
     "txHeadIdx", "txTailIdx", "txBufByteOffset",
     "stdinHeadIdx", "stdinTailIdx", "stdinBufByteOffset"}

\* capacity = 0 stands for an undefined capacity: every `cap - used` is then
\* NaN in the program and at most 0 here, and neither is `> 0`.
NewUartShared == [heapU8 |-> FALSE, capacity |-> 0, f |-> [x \in UartFields |-> Undef]]

\* A buffer offset that is read from the RX field whatever the channel.
BufByteOffsetOfRx(u, c) == u.f["rxBufByteOffset"]

HeadIdx(u, c) == u.f[c \o "HeadIdx"]
TailIdx(u, c) == u.f[c \o "TailIdx"]
BufByteOffset(u, c) == u.f[c \o "BufByteOffset"]

\* getExport(name): the accessor, looked up as module[name], module.asm[name]
\* or module['_' + name]; undefined when the module has it under no spelling.
getExport(m, name) == name \in m.exports

\* Accessors whose rx_head_ptr returns the address of the RX tail.
CallAccessorHeadIsTail(m, name) ==
    CASE name = "rx_head_ptr"    -> TailWord("rx")
      [] name = "rx_tail_ptr"    -> TailWord("rx")
      [] name = "rx_buf_ptr"     -> "rx"
      [] name = "tx_head_ptr"    -> HeadWord("tx")
      [] name = "tx_tail_ptr"    -> TailWord("tx")
      [] name = "tx_buf_ptr"     -> "tx"
      [] name = "stdin_head_ptr" -> HeadWord("stdin")
      [] name = "stdin_tail_ptr" -> TailWord("stdin")
      [] name = "stdin_buf_ptr"  -> "stdin"

\* What calling an accessor returns.
CallAccessor(m, name) ==
    CASE name = "rx_head_ptr"    -> HeadWord("rx")
      [] name = "rx_tail_ptr"    -> TailWord("rx")
      [] name = "rx_buf_ptr"     -> "rx"
      [] name = "tx_head_ptr"    -> HeadWord("tx")
      [] name = "tx_tail_ptr"    -> TailWord("tx")
      [] name = "tx_buf_ptr"     -> "tx"
      [] name = "stdin_head_ptr" -> HeadWord("stdin")
      [] name = "stdin_tail_ptr" -> TailWord("stdin")
      [] name = "stdin_buf_ptr"  -> "stdin"

\* The assignments of init in program order, after the capacity is read:
\* each calls getExport(accessor)() and throws a TypeError when the accessor
\* is undefined.
InitAssignments ==
    << <<"rxHeadIdx", "rx_head_ptr">>,
       <<"rxTailIdx", "rx_tail_ptr">>,
       <<"rxBufByteOffset", "rx_buf_ptr">>,
       <<"txHeadIdx", "tx_head_ptr">>,
       <<"txTailIdx", "tx_tail_ptr">>,
       <<"txBufByteOffset", "tx_buf_ptr">> >>

StdinAssignments ==
    << <<"stdinHeadIdx", "stdin_head_ptr">>,
       <<"stdinTailIdx", "stdin_tail_ptr">>,
       <<"stdinBufByteOffset", "stdin_buf_ptr">> >>

\* Runs the assignments as[k..] on u; stops with a TypeError at the first
\* accessor the module lacks.
RECURSIVE RunAssignments(_, _, _, _)
RunAssignments(u, m, as, k) ==
    IF k > Len(as) THEN [uart |-> u, result |-> "ok"]
    ELSE IF ~getExport(m, as[k][2]) THEN [uart |-> u, result |-> "TypeError"]
    ELSE RunAssignments([u EXCEPT !.f[as[k][1]] = CallAccessor(m, as[k][2])],
                        m, as, k + 1)

\* init(module): the UartShared after the call and how the call ended:
\* "no_heap" / "no_rx_head" are the two logged early returns, "TypeError" an
\* exception thrown out of init, "ok" a run to the end.
\* init that takes a second call for a reset.
UartInitResetting(u, m) ==
    IF u.heapU8 THEN [uart |-> NewUartShared, result |-> "no_heap"]
    ELSE IF ~(m.HEAPU8 \/ m.wasmMemory) THEN [uart |-> u, result |-> "no_heap"]
    ELSE IF ~getExport(m, "rx_head_ptr") THEN [uart |-> u, result |-> "no_rx_head"]
    ELSE IF ~getExport(m, "rb_capacity")
         THEN [uart |-> [u EXCEPT !.heapU8 = TRUE], result |-> "TypeError"]
    ELSE LET r == RunAssignments([u EXCEPT !.heapU8 = TRUE, !.capacity = m.capacity],
                                 m, InitAssignments, 1)
         IN  IF r.result # "ok" THEN r
             ELSE IF getExport(m, "stdin_head_ptr")
                  THEN RunAssignments(r.uart, m, StdinAssignments, 1)
                  ELSE r

UartInit(u, m) ==
    IF ~(m.HEAPU8 \/ m.wasmMemory) THEN [uart |-> u, result |-> "no_heap"]
    ELSE IF ~getExport(m, "rx_head_ptr") THEN [uart |-> u, result |-> "no_rx_head"]
    ELSE IF ~getExport(m, "rb_capacity")
         THEN [uart |-> [u EXCEPT !.heapU8 = TRUE], result |-> "TypeError"]
    ELSE LET r == RunAssignments([u EXCEPT !.heapU8 = TRUE, !.capacity = m.capacity],
                                 m, InitAssignments, 1)
         IN  IF r.result # "ok" THEN r
             ELSE IF getExport(m, "stdin_head_ptr")
                  THEN RunAssignments(r.uart, m, StdinAssignments, 1)
                  ELSE r

(* ------------------------------ the heap ------------------------------ *)

\* A word of the model occupies one byte cell, so word index 0 (what an
\* undefined index converts to) is byte 0 of the low memory.
Load(h, idx) == IF idx = Undef THEN h.U8["low"][0] % Modulus ELSE h.U32[idx]

Store(h, idx, v) ==
    IF idx = Undef THEN [h EXCEPT !.U8["low"][0] = v] ELSE [h EXCEPT !.U32[idx] = v]

\* Byte j of heapU8.set(segment, off + base): an undefined offset makes the
\* sum NaN, which `set` converts to 0, so the segment lands at address 0.
SetByte(h, off, base, j, b) ==
    IF off = Undef THEN [h EXCEPT !.U8["low"][j] = b]
    ELSE [h EXCEPT !.U8[off][base + j] = b]

NewHeap(start) ==
    [U32 |-> [w \in Words |-> start],
     U8  |-> [r \in Regions |-> [k \in 0 .. MaxCapacity - 1 |-> 0]]]

(* ------------------- ring operations of the main thread ---------------- *)

\* Variants of the index arithmetic with a slip in them.
UsedSigned(head, tail) == head - tail
UsedNoWrap(head, tail) == IF head >= tail THEN head - tail ELSE 0
UsedOffByOne(head, tail) == (head - tail + 1) % Modulus
FreeSpaceIgnoringUsed(cap, used) == cap
FreeSpaceOffByOne(cap, used) == cap - used - 1
RingIndexOffByOne(counter, cap) == (counter + 1) % cap

\* `(head - tail) >>> 0`: the bytes queued, as an unsigned difference.
Used(head, tail) == (head - tail) % Modulus

\* `cap - used`: the room left.
FreeSpace(cap, used) == cap - used

\* `(counter % cap) | 0`: the buffer cell a counter points at.
RingIndex(counter, cap) == counter % cap

\* `Math.min(n, cap - idx)`: the part of a copy that fits before the end of the buffer.
FirstSegment(n, cap, idx) == Min(n, cap - idx)

\* The activation record of one ring operation.  pc = "idle": no operation;
\* "ret": returned (ret is the value); "throw": left by an exception.
IdleFrame ==
    [pc |-> "idle", op |-> "none", chan |-> "none", src |-> <<>>, maxBytes |-> 0, out |-> <<>>,
     head |-> 0, tail |-> 0, used |-> 0, free |-> 0, srcOff |-> 0,
     toWrite |-> 0, available |-> 0, idx |-> 0, first |-> 0, i |-> 0, ret |-> 0]

\* pushRx(src): entry, with the `if (!this.heapU8) return` guard.
CallPushRx(u, src) ==
    [IdleFrame EXCEPT !.op = "pushRx", !.chan = "rx", !.src = src,
                      !.pc = IF ~u.heapU8 THEN "ret" ELSE "load_head"]

\* pushRx whose loop body writes all that is left of src, whatever the room.
PushRxLoopIgnoringFree(f, cap) ==
    IF f.srcOff < Len(f.src) /\ f.free > 0
    THEN LET toWrite == Len(f.src) - f.srcOff
             headIdx == RingIndex(f.head, cap)
         IN  [f EXCEPT !.pc = "copy", !.toWrite = toWrite, !.idx = headIdx,
                       !.first = FirstSegment(toWrite, cap, headIdx), !.i = 0]
    ELSE [f EXCEPT !.pc = "ret"]

\* pushRx: the `while` test and, when it passes, the head of the loop body.
PushRxLoop(f, cap) ==
    IF f.srcOff < Len(f.src) /\ f.free > 0
    THEN LET toWrite == Min(f.free, Len(f.src) - f.srcOff)
             headIdx == RingIndex(f.head, cap)
         IN  [f EXCEPT !.pc = "copy", !.toWrite = toWrite, !.idx = headIdx,
                       !.first = FirstSegment(toWrite, cap, headIdx), !.i = 0]
    ELSE [f EXCEPT !.pc = "ret"]

\* pushRx: one step (an index load, one byte of a heapU8.set, the head store).
PushRxStep(f, u, h) ==
    CASE f.pc = "load_head" ->
           [f |-> [f EXCEPT !.head = Load(h, HeadIdx(u, "rx")), !.pc = "load_tail"],
            h |-> h]
      [] f.pc = "load_tail" ->
           LET tail == Load(h, TailIdx(u, "rx"))
               used == Used(f.head, tail)
           IN  [f |-> PushRxLoop([f EXCEPT !.tail = tail, !.used = used,
                                           !.free = FreeSpace(u.capacity, used)],
                                 u.capacity),
                h |-> h]
      [] f.pc = "copy" ->
           LET b == f.src[f.srcOff + f.i + 1]
               off == BufByteOffset(u, "rx")
           IN  [f |-> [f EXCEPT !.i = f.i + 1,
                                !.pc = IF f.i + 1 = f.toWrite THEN "store" ELSE "copy"],
                h |-> IF f.i < f.first THEN SetByte(h, off, f.idx, f.i, b)
                      ELSE SetByte(h, off, 0, f.i - f.first, b)]
      [] f.pc = "store" ->
           LET head == (f.head + f.toWrite) % Modulus
               used == f.used + f.toWrite
           IN  [f |-> PushRxLoop([f EXCEPT !.head = head,
                                           !.srcOff = f.srcOff + f.toWrite,
                                           !.used = used,
                                           !.free = FreeSpace(u.capacity, used)],
                                 u.capacity),
                h |-> Store(h, HeadIdx(u, "rx"), head)]

\* pushStdin entered without looking at stdinHeadIdx.
CallPushStdinUnguarded(u, char) ==
    [IdleFrame EXCEPT !.op = "pushStdin", !.chan = "stdin", !.src = <<char>>,
                      !.pc = IF ~u.heapU8 THEN "ret" ELSE "load_head"]

\* pushStdin(char): entry, with its guard on heapU8 and stdinHeadIdx.
CallPushStdin(u, char) ==
    [IdleFrame EXCEPT !.op = "pushStdin", !.chan = "stdin", !.src = <<char>>,
                      !.pc = IF ~u.heapU8 \/ HeadIdx(u, "stdin") = Undef
                             THEN "ret" ELSE "load_head"]

\* pushStdin that stores its byte without looking at the room left.
PushStdinStepNoFullCheck(f, u, h) ==
    CASE f.pc = "load_head" ->
           [f |-> [f EXCEPT !.head = Load(h, HeadIdx(u, "stdin")), !.pc = "load_tail"],
            h |-> h]
      [] f.pc = "load_tail" ->
           LET tail == Load(h, TailIdx(u, "stdin"))
               used == Used(f.head, tail)
           IN  [f |-> [f EXCEPT !.tail = tail, !.used = used,
                                !.free = FreeSpace(u.capacity, used),
                                !.idx = RingIndex(f.head, u.capacity), !.toWrite = 1,
                                !.first = 1, !.pc = "copy"],
                h |-> h]
      [] f.pc = "copy" ->
           [f |-> [f EXCEPT !.i = 1, !.pc = "store"],
            h |-> SetByte(h, BufByteOffset(u, "stdin"), f.idx, 0, f.src[1])]
      [] f.pc = "store" ->
           LET head == (f.head + 1) % Modulus
           IN  [f |-> [f EXCEPT !.head = head, !.srcOff = 1, !.pc = "ret"],
                h |-> Store(h, HeadIdx(u, "stdin"), head)]

\* pushStdin: one step.  A store to heapU8[NaN] (undefined buffer offset) is
\* ignored by the typed array.
PushStdinStep(f, u, h) ==
    CASE f.pc = "load_head" ->
           [f |-> [f EXCEPT !.head = Load(h, HeadIdx(u, "stdin")), !.pc = "load_tail"],
            h |-> h]
      [] f.pc = "load_tail" ->
           LET tail == Load(h, TailIdx(u, "stdin"))
               used == Used(f.head, tail)
               free == FreeSpace(u.capacity, used)
           IN  [f |-> IF free > 0
                      THEN [f EXCEPT !.tail = tail, !.used = used, !.free = free,
                                     !.idx = RingIndex(f.head, u.capacity), !.toWrite = 1,
                                     !.first = 1, !.pc = "copy"]
                      ELSE [f EXCEPT !.tail = tail, !.used = used, !.free = free,
                                     !.pc = "ret"],
                h |-> h]
      [] f.pc = "copy" ->
           LET off == BufByteOffset(u, "stdin")
           IN  [f |-> [f EXCEPT !.i = 1, !.pc = "store"],
                h |-> IF off = Undef THEN h ELSE SetByte(h, off, f.idx, 0, f.src[1])]
      [] f.pc = "store" ->
           LET head == (f.head + 1) % Modulus
           IN  [f |-> [f EXCEPT !.head = head, !.srcOff = 1, !.pc = "ret"],
                h |-> Store(h, HeadIdx(u, "stdin"), head)]

\* popTx(maxBytes, out): entry, with the `if (!this.heapU8) return 0` guard.
CallPopTx(u, maxBytes, out) ==
    [IdleFrame EXCEPT !.op = "popTx", !.chan = "tx", !.maxBytes = maxBytes, !.out = out,
                      !.pc = IF ~u.heapU8 THEN "ret" ELSE "load_head"]

\* popTx: where the copy goes after f.i bytes.  Each of the two out.set calls
\* throws a RangeError before copying when its segment does not fit in out;
\* subarray over an undefined offset is empty.
PopTxNext(f, off) ==
    LET seg1 == IF off = Undef THEN 0 ELSE f.first
        seg2 == IF off = Undef THEN 0 ELSE f.available - f.first
    IN  IF f.i = 0 /\ seg1 > Len(f.out) THEN [f EXCEPT !.pc = "throw"]
        ELSE IF f.i < seg1 THEN [f EXCEPT !.pc = "copy"]
        ELSE IF f.available > f.first /\ f.first + seg2 > Len(f.out)
             THEN [f EXCEPT !.pc = "throw"]
        ELSE IF f.i < seg1 + seg2 THEN [f EXCEPT !.pc = "copy"]
        ELSE [f EXCEPT !.pc = "store"]

\* popTx: one step.
PopTxStep(f, u, h) ==
    CASE f.pc = "load_head" ->
           [f |-> [f EXCEPT !.head = Load(h, HeadIdx(u, "tx")), !.pc = "load_tail"],
            h |-> h]
      [] f.pc = "load_tail" ->
           LET tail == Load(h, TailIdx(u, "tx"))
               avail == Used(f.head, tail)
               available == IF avail > f.maxBytes THEN f.maxBytes ELSE avail
           IN  [f |-> IF avail = 0
                      THEN [f EXCEPT !.tail = tail, !.ret = 0, !.pc = "ret"]
                      ELSE LET tailIdx == RingIndex(tail, u.capacity)
                           IN  PopTxNext([f EXCEPT !.tail = tail,
                                                   !.available = available,
                                                   !.idx = tailIdx,
                                                   !.first = FirstSegment(available,
                                                                 u.capacity, tailIdx),
                                                   !.i = 0],
                                         BufByteOffset(u, "tx")),
                h |-> h]
      [] f.pc = "copy" ->
           LET off == BufByteOffset(u, "tx")
               b == IF f.i < f.first THEN h.U8[off][f.idx + f.i]
                    ELSE h.U8[off][f.i - f.first]
           IN  [f |-> PopTxNext([f EXCEPT !.out[f.i + 1] = b, !.i = f.i + 1], off),
                h |-> h]
      [] f.pc = "store" ->
           LET tail == (f.tail + f.available) % Modulus
           IN  [f |-> [f EXCEPT !.tail = tail, !.ret = f.available, !.pc = "ret"],
                h |-> Store(h, TailIdx(u, "tx"), tail)]

\* One step of whichever operation the frame is in.
MainStep(f, u, h) ==
    CASE f.op = "pushRx"    -> PushRxStep(f, u, h)
      [] f.op = "pushStdin" -> PushStdinStep(f, u, h)
      [] f.op = "popTx"     -> PopTxStep(f, u, h)

Running(f) == f.pc \notin {"idle", "ret", "throw"}

\* A whole call, run without interruption: the frame and heap it ends with.
\* (The step is bound through a one-element set, so it is computed once.)
RECURSIVE MainRun(_, _, _)
MainRun(f, u, h) ==
    IF ~Running(f) THEN [f |-> f, h |-> h]
    ELSE CHOOSE x \in {MainRun(r.f, u, r.h) : r \in {MainStep(f, u, h)}} : TRUE

(* ---------------- ring operations of the consumer module --------------- *)

\* tryPop(maxBytes, out) on channel c, as the module performs it on RX and Stdin.
CallModulePop(c, maxBytes, out) ==
    [IdleFrame EXCEPT !.op = "tryPop", !.chan = c, !.maxBytes = maxBytes,
                      !.out = out, !.pc = "load_tail"]

ModulePopStep(f, cap, h) ==
    CASE f.pc = "load_tail" ->
           [f |-> [f EXCEPT !.tail = h.U32[TailWord(f.chan)], !.pc = "load_head"],
            h |-> h]
      [] f.pc = "load_head" ->
           LET head == h.U32[HeadWord(f.chan)]
               avail == (head - f.tail) % Modulus
               n == Min(avail, Min(f.maxBytes, Len(f.out)))
               tailIdx == f.tail % cap
           IN  [f |-> IF n = 0
                      THEN [f EXCEPT !.head = head, !.ret = 0, !.pc = "ret"]
                      ELSE [f EXCEPT !.head = head, !.available = n, !.idx = tailIdx,
                                     !.first = Min(n, cap - tailIdx), !.i = 0,
                                     !.pc = "copy"],
                h |-> h]
      [] f.pc = "copy" ->
           LET b == IF f.i < f.first THEN h.U8[f.chan][f.idx + f.i]
                    ELSE h.U8[f.chan][f.i - f.first]
           IN  [f |-> [f EXCEPT !.out[f.i + 1] = b, !.i = f.i + 1,
                                !.pc = IF f.i + 1 = f.available THEN "store" ELSE "copy"],
                h |-> h]
      [] f.pc = "store" ->
           LET tail == (f.tail + f.available) % Modulus
           IN  [f |-> [f EXCEPT !.tail = tail, !.ret = f.available, !.pc = "ret"],
                h |-> [h EXCEPT !.U32[TailWord(f.chan)] = tail]]

\* tryPush(bytes) on channel c, as the module performs it on TX.
CallModulePush(c, src) ==
    [IdleFrame EXCEPT !.op = "tryPush", !.chan = c, !.src = src, !.pc = "load_head"]

ModulePushStep(f, cap, h) ==
    CASE f.pc = "load_head" ->
           [f |-> [f EXCEPT !.head = h.U32[HeadWord(f.chan)], !.pc = "load_tail"],
            h |-> h]
      [] f.pc = "load_tail" ->
           LET tail == h.U32[TailWord(f.chan)]
               used == (f.head - tail) % Modulus
               free == cap - used
               n == Min(free, Len(f.src))
               headIdx == f.head % cap
           IN  [f |-> IF n <= 0
                      THEN [f EXCEPT !.tail = tail, !.used = used, !.free = free,
                                     !.pc = "ret"]
                      ELSE [f EXCEPT !.tail = tail, !.used = used, !.free = free,
                                     !.toWrite = n, !.idx = headIdx,
                                     !.first = Min(n, cap - headIdx), !.i = 0,
                                     !.pc = "copy"],
                h |-> h]
      [] f.pc = "copy" ->
           LET b == f.src[f.i + 1]
           IN  [f |-> [f EXCEPT !.i = f.i + 1,
                                !.pc = IF f.i + 1 = f.toWrite THEN "store" ELSE "copy"],
                h |-> IF f.i < f.first THEN [h EXCEPT !.U8[f.chan][f.idx + f.i] = b]
                      ELSE [h EXCEPT !.U8[f.chan][f.i - f.first] = b]]
      [] f.pc = "store" ->
           LET head == (f.head + f.toWrite) % Modulus
           IN  [f |-> [f EXCEPT !.head = head, !.srcOff = f.toWrite, !.ret = f.toWrite,
                                !.pc = "ret"],
                h |-> [h EXCEPT !.U32[HeadWord(f.chan)] = head]]

ModuleStep(f, cap, h) ==
    CASE f.op = "tryPop"  -> ModulePopStep(f, cap, h)
      [] f.op = "tryPush" -> ModulePushStep(f, cap, h)

RECURSIVE ModuleRun(_, _, _)
ModuleRun(f, cap, h) ==
    IF ~Running(f) THEN [f |-> f, h |-> h]
    ELSE CHOOSE x \in {ModuleRun(r.f, cap, r.h) : r \in {ModuleStep(f, cap, h)}} : TRUE

(* ------------------------------ histories ----------------------------- *)

\* The next n bytes offered to channel c: bytes are numbered in offer order.
NextBytes(c, n) == [k \in 1 .. n |-> offered[c] + k]

Zeros(n) == [k \in 1 .. n |-> 0]

TotalOffered == offered["rx"] + offered["tx"] + offered["stdin"]

\* What a step of frame f publishes: a producer's head store publishes the
\* bytes it copied, a consumer's tail store hands out the bytes it copied.
Published(f, f2) ==
    IF f.pc = "store" /\ f.op \in {"pushRx", "pushStdin", "tryPush"}
    THEN SubSeq(f2.src, f.srcOff + 1, f2.srcOff) ELSE <<>>

Taken(f, f2) ==
    IF f.pc = "store" /\ f.op \in {"popTx", "tryPop"}
    THEN SubSeq(f2.out, 1, f2.ret) ELSE <<>>

(* ------------------------------- actions ------------------------------ *)

\* What the module may lack: a few accessors, or any part of the Stdin triple.
MissingSets ==
    {x \in SUBSET Accessors : Cardinality(x) <= MaxMissing} \cup SUBSET StdinAccessors

Modules ==
    [HEAPU8 : BOOLEAN, wasmMemory : BOOLEAN, underscore : BOOLEAN,
     capacity : Capacities,
     exports : {Accessors \ miss : miss \in MissingSets}]

\* The streams of one open of the port, before anything took them.
NewEnds == [reader |-> "none", writer |-> "none", readable |-> "open", writable |-> "open"]

\* The fields of a freshly constructed PM3WebUSB; 0 stands for null.
NewPM3WebUSB ==
    [device |-> FALSE, reader |-> 0, writer |-> 0,
     isConnected |-> FALSE, readLoopRunning |-> FALSE, txLoopRunning |-> FALSE]

Opens == 1 .. MaxConnects

\* useWebSerial after its first render: the state, the four refs, no call
\* of connect() or disconnect() in flight, no read loop.
NewHook ==
    [status |-> "disconnected",
     portRef |-> FALSE, readerRef |-> 0, writerRef |-> 0, readLoopActiveRef |-> FALSE,
     connect |-> [pc |-> "idle", calls |-> 0, result |-> "none"],
     disconnect |-> [pc |-> "idle", on |-> 0, calls |-> 0, result |-> "none"],
     listening |-> {}, delivered |-> 0, writing |-> {}, sent |-> 0,
     loop |-> [g \in Opens |-> "none"]]

\* useProxmarkWasm after its first render: outputBufferRef is '', onOutput
\* has been given nothing.  emitted is the history of the codes the module
\* wrote, idle says that the module has written all it had to write.
NewStdio == [outputBuffer |-> <<>>, delivered |-> <<>>, emitted |-> <<>>, idle |-> FALSE]

\* App and useProxmarkWasm after the first render: isDeviceConnected is
\* false, no handler is in flight.  Each handler in flight remembers the
\* number of calls of the transport's method made before its own (at).
NewApp ==
    [isDeviceConnected |-> FALSE,
     connectDevice |-> [pc |-> "idle", at |-> 0, isReady |-> FALSE],
     disconnectDevice |-> [pc |-> "idle", at |-> 0, then |-> "none"],
     toWasm |-> [pc |-> "idle", at |-> 0]]

Init ==
    /\ connectionMode \in {"wasm", "serial"}
    /\ hook = NewHook
    /\ app = NewApp
    /\ stdio = NewStdio
    /\ serial \in BOOLEAN
    /\ usb = NewPM3WebUSB
    /\ port = [state |-> "closed", opens |-> 0, by |-> "none"]
    /\ ends = [g \in Opens |-> NewEnds]
    /\ conn = [pc |-> "idle", calls |-> 0, result |-> "none", fresh |-> TRUE, loops |-> FALSE]
    /\ disc = [pc |-> "idle", on |-> 0, calls |-> 0, result |-> "none", reading |-> FALSE,
               opens |-> 0]
    /\ rloop = [g \in Opens |-> [pc |-> "none", via |-> 0]]
    /\ tloop = [g \in Opens |-> [pc |-> "none", via |-> 0, chunk |-> <<>>]]
    /\ written = <<>>
    /\ module \in Modules
    /\ runtime = "loading"
    /\ isReady = FALSE
    /\ uart = NewUartShared
    /\ origin \in StartCounters
    /\ focus \in Channels \cup {"all"}
    /\ heap = NewHeap(origin)
    /\ bindCount = 0
    /\ initResult = "none"
    /\ frame = IdleFrame
    /\ wframe = IdleFrame
    /\ offered = [c \in Channels |-> 0]
    /\ accepted = [c \in Channels |-> <<>>]
    /\ popped = [c \in Channels |-> <<>>]

\* onRuntimeInitialized marking the hook ready without binding the channels.
OnRuntimeInitializedWithoutBind ==
    /\ runtime = "loading"
    /\ frame.pc = "idle"
    /\ isReady' = TRUE
    /\ runtime' = "initialized"
    /\ UNCHANGED <<uart, initResult, bindCount, module, origin, focus, heap, ringVars,
                   connVars>>

\* module.onRuntimeInitialized: binds the channels, then marks the hook ready.
\* An exception thrown by init leaves the rest of the callback undone.
OnRuntimeInitialized ==
    /\ runtime = "loading"
    /\ frame.pc = "idle"
    /\ LET r == UartInit(uart, module)
       IN  /\ uart' = r.uart
           /\ initResult' = r.result
           /\ bindCount' = IF r.result = "ok" THEN bindCount + 1 ELSE bindCount
           /\ isReady' = (r.result # "TypeError")
    /\ runtime' = "initialized"
    /\ UNCHANGED <<module, origin, focus, heap, ringVars, connVars>>

\* The main thread enters pushRx with the next len bytes of the device.
MainCallPushRx(len) ==
    /\ focus = "rx"
    /\ frame.pc = "idle"
    /\ TotalOffered + len <= MaxOffered
    /\ frame' = CallPushRx(uart, NextBytes("rx", len))
    /\ offered' = [offered EXCEPT !["rx"] = @ + len]
    /\ UNCHANGED <<bindVars, heap, wframe, accepted, popped>>

\* The main thread enters pushStdin with the next keystroke.
MainCallPushStdin ==
    /\ focus = "stdin"
    /\ frame.pc = "idle"
    /\ TotalOffered + 1 <= MaxOffered
    /\ frame' = CallPushStdin(uart, NextBytes("stdin", 1)[1])
    /\ offered' = [offered EXCEPT !["stdin"] = @ + 1]
    /\ UNCHANGED <<bindVars, heap, wframe, accepted, popped>>

\* The main thread enters popTx(maxBytes, out) with a scratch buffer of outLen bytes.
MainCallPopTx(maxBytes, outLen) ==
    /\ focus = "tx"
    /\ frame.pc = "idle"
    /\ frame' = CallPopTx(uart, maxBytes, Zeros(outLen))
    /\ UNCHANGED <<bindVars, heap, wframe, offered, accepted, popped>>

\* One step of the main thread's operation.
MainStepAct ==
    /\ Running(frame)
    /\ LET r == MainStep(frame, uart, heap)
       IN  /\ frame' = r.f
           /\ heap' = r.h
           /\ accepted' = [accepted EXCEPT ![frame.chan] = @ \o Published(frame, r.f)]
           /\ popped' = [popped EXCEPT ![frame.chan] = @ \o Taken(frame, r.f)]
    /\ UNCHANGED <<bindVars, wframe, offered>>

\* The operation returns (or its exception reaches the caller).
MainReturn ==
    /\ frame.pc \in {"ret", "throw"}
    /\ frame' = IdleFrame
    /\ UNCHANGED <<bindVars, heap, wframe, offered, accepted, popped>>

\* The module starts draining RX or Stdin.
ModuleCallPop(c, maxBytes) ==
    /\ focus = c
    /\ runtime = "initialized"
    /\ wframe.pc = "idle"
    /\ wframe' = CallModulePop(c, maxBytes, Zeros(maxBytes))
    /\ UNCHANGED <<bindVars, heap, frame, offered, accepted, popped>>

\* The module starts writing its next len output bytes to TX.
ModuleCallPush(len) ==
    /\ focus = "tx"
    /\ runtime = "initialized"
    /\ wframe.pc = "idle"
    /\ TotalOffered + len <= MaxOffered
    /\ wframe' = CallModulePush("tx", NextBytes("tx", len))
    /\ offered' = [offered EXCEPT !["tx"] = @ + len]
    /\ UNCHANGED <<bindVars, heap, frame, accepted, popped>>

ModuleStepAct ==
    /\ Running(wframe)
    /\ LET r == ModuleStep(wframe, module.capacity, heap)
       IN  /\ wframe' = r.f
           /\ heap' = r.h
           /\ accepted' = [accepted EXCEPT ![wframe.chan] = @ \o Published(wframe, r.f)]
           /\ popped' = [popped EXCEPT ![wframe.chan] = @ \o Taken(wframe, r.f)]
    /\ UNCHANGED <<bindVars, frame, offered>>

ModuleReturn ==
    /\ wframe.pc \in {"ret", "throw"}
    /\ wframe' = IdleFrame
    /\ UNCHANGED <<bindVars, heap, frame, offered, accepted, popped>>

(* ------------- the ring channels under arbitrary interleaving ---------- *)

\* The module exports every accessor.
BoundModules ==
    {m \in Modules : /\ m.HEAPU8
                     /\ ~m.wasmMemory
                     /\ m.underscore
                     /\ m.exports = Accessors}

\* The two sides of a channel are independent of the other channels (they
\* share no word and no cell), so one behaviour takes the operations of one
\* channel step by step.
InitRing ==
    Init /\ module \in BoundModules /\ focus \in Channels /\ serial /\ connectionMode = "wasm"

\* popTx(maxBytes, out): out is as long as maxBytes, as the write loop calls
\* it, or one byte shorter.
PopArgs == {a \in (1 .. MaxLen) \X (1 .. MaxLen) : a[1] \in {a[2], a[2] + 1}}

NextRing ==
    \/ OnRuntimeInitialized
    \/ \E len \in 1 .. MaxLen : MainCallPushRx(len)
    \/ MainCallPushStdin
    \/ \E a \in PopArgs : MainCallPopTx(a[1], a[2])
    \/ MainStepAct
    \/ MainReturn
    \/ \E c \in {"rx", "stdin"}, maxBytes \in 1 .. MaxLen : ModuleCallPop(c, maxBytes)
    \/ \E len \in 1 .. MaxLen : ModuleCallPush(len)
    \/ ModuleStepAct
    \/ ModuleReturn

SpecRing == InitRing /\ [][NextRing]_vars

(* ------------------ whole calls, and the command adapter --------------- *)

\* '\n'.charCodeAt(0)
Newline == 10

\* The scratch buffer of the write loop (`tmp`), scaled to the model.
TmpLength == MaxLen

\* pushStdin called once per element of chars, in order: the frames it
\* accepted bytes in are counted in n, the heap is threaded through.
RECURSIVE PushStdinAll(_, _, _, _)
PushStdinAll(chars, u, h, acc) ==
    IF chars = <<>> THEN [h |-> h, acc |-> acc]
    ELSE LET r == MainRun(CallPushStdin(u, Head(chars)), u, h)
         IN  PushStdinAll(Tail(chars), u, r.h,
                          acc \o SubSeq(r.f.src, 1, r.f.srcOff))

\* A whole pushRx call, as the read loop makes it for one chunk of the device.
PushRxCall(len) ==
    /\ focus = "all"
    /\ TotalOffered + len <= MaxSent
    /\ LET src == NextBytes("rx", len)
           r == MainRun(CallPushRx(uart, src), uart, heap)
       IN  /\ heap' = r.h
           /\ accepted' = [accepted EXCEPT !["rx"] = @ \o SubSeq(src, 1, r.f.srcOff)]
    /\ offered' = [offered EXCEPT !["rx"] = @ + len]
    /\ UNCHANGED <<bindVars, frame, wframe, popped>>

\* A whole popTx(tmp.length, tmp) call, as the write loop makes it.
PopTxCall ==
    /\ focus = "all"
    /\ LET r == MainRun(CallPopTx(uart, TmpLength, Zeros(TmpLength)), uart, heap)
       IN  /\ heap' = r.h
           /\ popped' = [popped EXCEPT !["tx"] = @ \o SubSeq(r.f.out, 1, r.f.ret)]
    /\ UNCHANGED <<bindVars, frame, wframe, offered, accepted>>

\* sendCommand without its last pushStdin.
SendCommandRunNoNewline(chars) ==
    IF ~isReady THEN [h |-> heap, acc |-> <<>>]
    ELSE PushStdinAll(chars, uart, heap, <<>>)

\* The body of sendCommand(command): nothing while the hook is not ready,
\* else pushStdin for every character and then for the newline.
SendCommandRun(chars) ==
    IF ~isReady THEN [h |-> heap, acc |-> <<>>]
    ELSE PushStdinAll(chars \o <<Newline>>, uart, heap, <<>>)

\* sendCommand(command) with the next len characters of the user.
SendCommand(len) ==
    /\ focus = "all"
    /\ TotalOffered + len <= MaxSent
    /\ LET r == SendCommandRun(NextBytes("stdin", len))
       IN  /\ heap' = r.h
           /\ accepted' = [accepted EXCEPT !["stdin"] = @ \o r.acc]
    /\ offered' = [offered EXCEPT !["stdin"] = @ + len]
    /\ UNCHANGED <<bindVars, frame, wframe, popped>>

\* sendInput(char): one character through pushStdin; nothing while not ready.
SendInput ==
    /\ focus = "all"
    /\ TotalOffered + 1 <= MaxSent
    /\ LET r == IF ~isReady THEN [h |-> heap, acc |-> <<>>]
                ELSE PushStdinAll(NextBytes("stdin", 1), uart, heap, <<>>)
       IN  /\ heap' = r.h
           /\ accepted' = [accepted EXCEPT !["stdin"] = @ \o r.acc]
    /\ offered' = [offered EXCEPT !["stdin"] = @ + 1]
    /\ UNCHANGED <<bindVars, frame, wframe, popped>>

\* The module drains RX or Stdin in one go.
ModulePopCall(c, maxBytes) ==
    /\ focus = "all"
    /\ runtime = "initialized"
    /\ LET r == ModuleRun(CallModulePop(c, maxBytes, Zeros(maxBytes)),
                          module.capacity, heap)
       IN  /\ heap' = r.h
           /\ popped' = [popped EXCEPT ![c] = @ \o SubSeq(r.f.out, 1, r.f.ret)]
    /\ UNCHANGED <<bindVars, frame, wframe, offered, accepted>>

\* The module writes its next len output bytes to TX in one go.
ModulePushCall(len) ==
    /\ focus = "all"
    /\ runtime = "initialized"
    /\ TotalOffered + len <= MaxSent
    /\ LET src == NextBytes("tx", len)
           r == ModuleRun(CallModulePush("tx", src), module.capacity, heap)
       IN  /\ heap' = r.h
           /\ accepted' = [accepted EXCEPT !["tx"] = @ \o SubSeq(src, 1, r.f.srcOff)]
    /\ offered' = [offered EXCEPT !["tx"] = @ + len]
    /\ UNCHANGED <<bindVars, frame, wframe, popped>>

(* ------------------- binding against any kind of module ---------------- *)

InitBind ==
    /\ Init
    /\ focus = "all"
    /\ origin = 0
    /\ module.underscore
    /\ ~(module.HEAPU8 /\ module.wasmMemory)
    /\ serial
    /\ connectionMode = "wasm"

NextBind ==
    \/ OnRuntimeInitialized
    \/ \E len \in 1 .. MaxLen : PushRxCall(len)
    \/ PopTxCall
    \/ \E len \in 1 .. MaxLen : SendCommand(len)
    \/ SendInput
    \/ \E c \in {"rx", "stdin"}, maxBytes \in 1 .. MaxLen : ModulePopCall(c, maxBytes)
    \/ \E len \in 1 .. MaxLen : ModulePushCall(len)

SpecBind == InitBind /\ [][NextBind]_vars

(* ------------------------------ PM3WebUSB ------------------------------ *)

\* What the tasks of the connection read and write, as one value.
World ==
    [usb |-> usb, ends |-> ends, rloop |-> rloop, tloop |-> tloop,
     uart |-> uart, heap |-> heap, popped |-> popped]

Commit(w) ==
    /\ usb' = w.usb /\ ends' = w.ends /\ rloop' = w.rloop /\ tloop' = w.tloop
    /\ uart' = w.uart /\ heap' = w.heap /\ popped' = w.popped

\* if (this.reader) this.reader.releaseLock()
ReleaseReader(w) ==
    IF w.usb.reader = 0 THEN w ELSE [w EXCEPT !.ends[w.usb.reader].reader = "released"]

\* if (this.writer) this.writer.releaseLock()
ReleaseWriter(w) ==
    IF w.usb.writer = 0 THEN w ELSE [w EXCEPT !.ends[w.usb.writer].writer = "released"]

\* startReadLoop: the finally block, and the end of the task.
ReadLoopExit(g, w) ==
    [ReleaseReader(w) EXCEPT !.rloop[g] = [pc |-> "done", via |-> 0]]

\* startReadLoop: the loop condition, then this.reader.read(), which throws
\* when this.reader is null.
ReadLoopTurn(g, w) ==
    IF w.usb.readLoopRunning /\ w.usb.device /\ w.usb.isConnected /\ w.usb.reader # 0
    THEN [w EXCEPT !.rloop[g] = [pc |-> "read", via |-> w.usb.reader]]
    ELSE ReadLoopExit(g, w)

\* startReadLoop up to its first await; getReader() throws on a locked stream.
StartReadLoop(g, w) ==
    IF ~w.usb.device \/ w.ends[g].readable # "open"
    THEN [w EXCEPT !.rloop[g] = [pc |-> "done", via |-> 0]]
    ELSE IF w.ends[g].reader = "held" THEN ReadLoopExit(g, w)
    ELSE ReadLoopTurn(g, [w EXCEPT !.usb.reader = g, !.ends[g].reader = "held"])

\* startTxLoop: the finally block, and the end of the task.
TxLoopExit(g, w) ==
    [ReleaseWriter(w) EXCEPT !.tloop[g] = [pc |-> "done", via |-> 0, chunk |-> <<>>]]

\* A write loop that pops a chunk and sleeps without writing it.
TxLoopTurnNoWrite(g, w) ==
    IF w.usb.txLoopRunning /\ w.usb.device /\ w.usb.isConnected
    THEN LET r == MainRun(CallPopTx(w.uart, TmpLength, Zeros(TmpLength)), w.uart, w.heap)
         IN  [w EXCEPT !.heap = r.h,
                       !.popped["tx"] = @ \o SubSeq(r.f.out, 1, r.f.ret),
                       !.tloop[g] = [pc |-> "sleep", via |-> 0, chunk |-> <<>>]]
    ELSE TxLoopExit(g, w)

\* startTxLoop: the loop condition, popTx(tmp.length, tmp), then either
\* this.writer.write(tmp.subarray(0, n)) or the 5 ms sleep.  A write on a
\* stream that is closing or closed is rejected.
TxLoopTurn(g, w) ==
    IF w.usb.txLoopRunning /\ w.usb.device /\ w.usb.isConnected
    THEN LET r == MainRun(CallPopTx(w.uart, TmpLength, Zeros(TmpLength)), w.uart, w.heap)
             n == r.f.ret
             chunk == SubSeq(r.f.out, 1, n)
             v == [w EXCEPT !.heap = r.h, !.popped["tx"] = @ \o chunk]
             h == w.usb.writer
         IN  IF n = 0
             THEN [v EXCEPT !.tloop[g] = [pc |-> "sleep", via |-> 0, chunk |-> <<>>]]
             ELSE IF h = 0 THEN TxLoopExit(g, v)
             ELSE IF v.ends[h].writable = "open"
                  THEN [v EXCEPT !.tloop[g] = [pc |-> "write", via |-> h, chunk |-> chunk]]
                  ELSE [v EXCEPT !.tloop[g] = [pc |-> "rejected", via |-> h, chunk |-> chunk]]
    ELSE TxLoopExit(g, w)

\* startTxLoop up to its first await; getWriter() throws on a locked stream.
StartTxLoop(g, w) ==
    IF ~w.usb.device \/ w.ends[g].writable # "open"
    THEN [w EXCEPT !.tloop[g] = [pc |-> "done", via |-> 0, chunk |-> <<>>]]
    ELSE IF w.ends[g].writer = "held" THEN TxLoopExit(g, w)
    ELSE TxLoopTurn(g, [w EXCEPT !.usb.writer = g, !.ends[g].writer = "held"])

\* connect, from the moment open() has resolved: the flags, init when the
\* runtime is up (an exception of init lands in connect's catch), the loops.
ConnectOpened(g, w, m) ==
    LET w1 == [w EXCEPT !.usb.isConnected = TRUE,
                        !.usb.readLoopRunning = TRUE,
                        !.usb.txLoopRunning = TRUE]
        ready == runtime = "initialized" /\ m.HEAPU8 /\ m.underscore
                     /\ getExport(m, "rx_head_ptr")
        r == IF ready THEN UartInit(w.uart, m) ELSE [uart |-> w.uart, result |-> "skipped"]
        w2 == [w1 EXCEPT !.uart = r.uart]
    IN  IF r.result = "TypeError"
        THEN [w |-> w2, init |-> r.result, ret |-> FALSE]
        ELSE [w |-> StartTxLoop(g, StartReadLoop(g, w2)), init |-> r.result, ret |-> TRUE]

\* connect() up to its first await: without the serial capability it returns
\* false at once, otherwise it asks the user for a port.
CallConnect ==
    /\ conn.pc = "idle"
    /\ conn.calls < MaxConnects
    /\ conn' = [pc |-> IF serial THEN "requestPort" ELSE "idle",
                calls |-> conn.calls + 1,
                result |-> IF serial THEN "none" ELSE "false",
                fresh |-> ~usb.isConnected,
                loops |-> FALSE]
    /\ UNCHANGED <<module, runtime, isReady, uart, heap, bindCount, initResult, origin,
                   focus, ringVars, pageVars, hookVars, usb, port, ends, disc, rloop, tloop, written>>

\* The user picked a port, the one this.device held or another one that is
\* closed: this.device is set and open() is called, which is rejected at
\* once when the port is not closed.  A port this.device no longer refers to
\* keeps its state and its streams.
RequestPortResolves ==
    /\ conn.pc = "requestPort"
    /\ usb' = [usb EXCEPT !.device = TRUE]
    /\ \E other \in BOOLEAN :
           IF port.state = "closed" \/ other
           THEN /\ port' = [port EXCEPT !.state = "opening", !.by = "wasm"]
                /\ conn' = [conn EXCEPT !.pc = "open"]
           ELSE /\ port' = [port EXCEPT !.by = "wasm"]
                /\ conn' = [conn EXCEPT !.pc = "openRejected"]
    /\ UNCHANGED <<module, runtime, isReady, uart, heap, bindCount, initResult, origin,
                   focus, ringVars, pageVars, hookVars, ends, disc, rloop, tloop, written>>

\* The user dismissed the chooser: the catch block, return false.
RequestPortRejects ==
    /\ conn.pc = "requestPort"
    /\ conn' = [conn EXCEPT !.pc = "idle", !.result = "false"]
    /\ UNCHANGED <<module, runtime, isReady, uart, heap, bindCount, initResult, origin,
                   focus, ringVars, pageVars, hookVars, usb, port, ends, disc, rloop, tloop, written>>

\* open() resolved: the port has fresh streams, and connect runs to its end.
OpenResolves ==
    /\ conn.pc = "open"
    /\ LET g == port.opens + 1
           c == ConnectOpened(g, World, module)
       IN  /\ port' = [port EXCEPT !.state = "opened", !.opens = g]
           /\ Commit(c.w)
           /\ initResult' = IF c.init = "skipped" THEN initResult ELSE c.init
           /\ bindCount' = IF c.init = "ok" THEN bindCount + 1 ELSE bindCount
           /\ conn' = [conn EXCEPT !.pc = "idle",
                                   !.result = IF c.ret THEN "true" ELSE "false",
                                   !.loops = c.ret]
    /\ UNCHANGED <<module, runtime, isReady, origin, focus, frame, wframe, offered,
                   accepted, pageVars, hookVars, disc, written>>

\* open() was rejected (port in use, already open, device error): the catch
\* block, return false.
OpenRejects ==
    /\ conn.pc \in {"open", "openRejected"}
    /\ port' = IF conn.pc = "open" THEN [port EXCEPT !.state = "closed"] ELSE port
    /\ conn' = [conn EXCEPT !.pc = "idle", !.result = "false"]
    /\ UNCHANGED <<module, runtime, isReady, uart, heap, bindCount, initResult, origin,
                   focus, ringVars, pageVars, hookVars, usb, ends, disc, rloop, tloop, written>>

\* The device delivered a chunk to the pending read: pushRx(value), then the
\* loop goes round.
ReadChunk(g, len) ==
    /\ rloop[g].pc = "read"
    /\ ends[rloop[g].via].reader = "held"
    /\ ends[rloop[g].via].readable = "open"
    /\ TotalOffered + len <= MaxPumped
    /\ LET src == NextBytes("rx", len)
           r == MainRun(CallPushRx(uart, src), uart, heap)
       IN  /\ Commit(ReadLoopTurn(g, [World EXCEPT !.heap = r.h]))
           /\ accepted' = [accepted EXCEPT !["rx"] = @ \o SubSeq(src, 1, r.f.srcOff)]
    /\ offered' = [offered EXCEPT !["rx"] = @ + len]
    /\ UNCHANGED <<module, runtime, isReady, bindCount, initResult, origin, focus,
                   frame, wframe, pageVars, hookVars, port, conn, disc, written>>

\* The pending read ended without a chunk: done on a closed stream (break),
\* or rejected because its reader was released (catch); then the finally block.
ReadEnds(g) ==
    /\ rloop[g].pc = "read"
    /\ \/ ends[rloop[g].via].reader = "released"
       \/ ends[rloop[g].via].readable # "open"
    /\ Commit(ReadLoopExit(g, World))
    /\ UNCHANGED <<module, runtime, isReady, bindCount, initResult, origin, focus,
                   ringVars, pageVars, hookVars, port, conn, disc, written>>

\* The 5 ms sleep of the write loop is over: the loop goes round.
TxWake(g) ==
    /\ tloop[g].pc = "sleep"
    /\ \E w \in {TxLoopTurn(g, World)} : Commit(w)
    /\ UNCHANGED <<module, runtime, isReady, bindCount, initResult, origin, focus,
                   frame, wframe, offered, accepted, pageVars, hookVars, port, conn, disc, written>>

\* The pending write settled: the device took the chunk and the loop goes
\* round, or the write was rejected (catch, then the finally block).
TxWriteSettles(g) ==
    /\ tloop[g].pc \in {"write", "rejected"}
    /\ IF tloop[g].pc = "write" /\ ends[tloop[g].via].writable \in {"open", "closing"}
       THEN /\ written' = written \o tloop[g].chunk
            /\ \E w \in {TxLoopTurn(g, World)} : Commit(w)
       ELSE /\ written' = written
            /\ \E w \in {TxLoopExit(g, World)} : Commit(w)
    /\ UNCHANGED <<module, runtime, isReady, bindCount, initResult, origin, focus,
                   frame, wframe, offered, accepted, pageVars, hookVars, port, conn, disc>>

\* A device ends the connection from its side (end of stream, cable
\* unplugged): the pending and later reads and writes on the streams of its
\* open port end or fail.
DeviceEnds(g) ==
    /\ g <= port.opens
    /\ ends[g].readable = "open"
    /\ ends' = [ends EXCEPT ![g].readable = "ended",
                            ![g].writable = IF @ = "closed" THEN "closed" ELSE "ended"]
    /\ UNCHANGED <<module, runtime, isReady, uart, heap, bindCount, initResult, origin,
                   focus, ringVars, pageVars, hookVars, usb, port, conn, disc, rloop, tloop,
                   written>>

\* A stream of the port that is still open and locked: close() of the port
\* cannot cancel or abort it and is rejected.
StreamsLocked(w) ==
    /\ port.opens > 0
    /\ \/ w.ends[port.opens].readable = "open" /\ w.ends[port.opens].reader = "held"
       \/ w.ends[port.opens].writable = "open" /\ w.ends[port.opens].writer = "held"

\* disconnect from `if (this.device)` to its next await or its end.
DisconnectDevice(w) ==
    IF ~w.usb.device THEN [w |-> w, pc |-> "idle", on |-> 0, result |-> "returned"]
    ELSE IF port.state = "opened" /\ ~StreamsLocked(w)
         THEN [w |-> w, pc |-> "closeDevice", on |-> port.opens, result |-> "none"]
         ELSE [w |-> w, pc |-> "rejected", on |-> 0, result |-> "none"]

\* disconnect from `if (this.writer)` to its next await or its end;
\* close() of a writer that is released, or whose stream is not open, is rejected.
DisconnectWriter(w) ==
    LET h == w.usb.writer
    IN  IF h = 0 THEN DisconnectDevice(w)
        ELSE IF w.ends[h].writer = "held" /\ w.ends[h].writable = "open"
             THEN [w |-> [w EXCEPT !.ends[h].writable = "closing"],
                   pc |-> "closeWriter", on |-> h, result |-> "none"]
             ELSE [w |-> w, pc |-> "rejected", on |-> 0, result |-> "none"]

\* disconnect from `if (this.reader)` to its next await or its end; cancel()
\* of a held reader closes the stream, cancel() of a released one is rejected.
DisconnectReader(w) ==
    LET h == w.usb.reader
    IN  IF h = 0 THEN DisconnectWriter(w)
        ELSE IF w.ends[h].reader = "held"
             THEN [w |-> [w EXCEPT !.ends[h].readable = "closed"],
                   pc |-> "cancel", on |-> h, result |-> "none"]
             ELSE [w |-> w, pc |-> "rejected", on |-> 0, result |-> "none"]

\* A read loop is awaiting a chunk of the device.
ReadPending ==
    \E g \in Opens : /\ rloop[g].pc = "read"
                      /\ ends[rloop[g].via].reader = "held"
                      /\ ends[rloop[g].via].readable = "open"

\* disconnect() up to its first await: the three flags, then the reader.
CallDisconnect ==
    /\ disc.pc = "idle"
    /\ disc.calls < MaxDisconnects
    /\ LET d == DisconnectReader([World EXCEPT !.usb.readLoopRunning = FALSE,
                                                !.usb.txLoopRunning = FALSE,
                                                !.usb.isConnected = FALSE])
       IN  /\ Commit(d.w)
           /\ disc' = [pc |-> d.pc, on |-> d.on, calls |-> disc.calls + 1,
                       result |-> d.result, reading |-> ReadPending, opens |-> port.opens]
    /\ UNCHANGED <<module, runtime, isReady, bindCount, initResult, origin, focus,
                   ringVars, pageVars, hookVars, port, conn, written>>

\* reader.cancel() resolved: this.reader = null, then the writer.  cancel()
\* settles the pending read first, and the continuation of the loop that
\* awaited it runs before the continuation of disconnect.
CancelResolves ==
    /\ disc.pc = "cancel"
    /\ \A g \in Opens : ~(rloop[g].pc = "read" /\ rloop[g].via = disc.on)
    /\ LET d == DisconnectWriter([World EXCEPT !.usb.reader = 0])
       IN  /\ Commit(d.w)
           /\ disc' = [disc EXCEPT !.pc = d.pc, !.on = d.on, !.result = d.result]
    /\ UNCHANGED <<module, runtime, isReady, bindCount, initResult, origin, focus,
                   ringVars, pageVars, hookVars, port, conn, written>>

\* writer.close() resolved, after the writes queued before it: this.writer =
\* null, then the device.
CloseWriterResolves ==
    /\ disc.pc = "closeWriter"
    /\ \A g \in Opens : ~(tloop[g].pc = "write" /\ tloop[g].via = disc.on)
    /\ LET d == DisconnectDevice([World EXCEPT !.ends[disc.on].writable = "closed",
                                               !.usb.writer = 0])
       IN  /\ Commit(d.w)
           /\ disc' = [disc EXCEPT !.pc = d.pc, !.on = d.on, !.result = d.result]
    /\ UNCHANGED <<module, runtime, isReady, bindCount, initResult, origin, focus,
                   ringVars, pageVars, hookVars, port, conn, written>>

\* device.close() resolved: the port it was called on and its streams are
\* closed, this.device = null, and disconnect returns.  Once another port
\* was picked, `port` is no longer the port being closed.
CloseDeviceResolves ==
    /\ disc.pc = "closeDevice"
    /\ port' = IF disc.on = port.opens /\ port.state = "opened"
               THEN [port EXCEPT !.state = "closed"] ELSE port
    /\ ends' = [ends EXCEPT ![disc.on].readable = "closed",
                            ![disc.on].writable = "closed"]
    /\ usb' = [usb EXCEPT !.device = FALSE]
    /\ disc' = [disc EXCEPT !.pc = "idle", !.on = 0, !.result = "returned"]
    /\ UNCHANGED <<module, runtime, isReady, uart, heap, bindCount, initResult, origin,
                   focus, ringVars, pageVars, hookVars, conn, rloop, tloop, written>>

\* An awaited step of disconnect was rejected: disconnect throws there and
\* the steps after it are not run.
DisconnectThrows ==
    /\ disc.pc = "rejected"
    /\ disc' = [disc EXCEPT !.pc = "idle", !.on = 0, !.result = "threw"]
    /\ UNCHANGED <<module, runtime, isReady, uart, heap, bindCount, initResult, origin,
                   focus, ringVars, pageVars, hookVars, usb, port, ends, conn, rloop, tloop, written>>

(* ------------------------------ useWebSerial --------------------------- *)

\* What the PM3WebUSB side of a step in serial mode leaves alone.
HookFrame ==
    UNCHANGED <<module, runtime, isReady, uart, heap, bindCount, initResult, origin,
                focus, ringVars, pageVars, connectionMode, usb, conn, disc, rloop, tloop,
                written>>

\* startReadLoop of the hook up to its first await: nothing when the port has
\* no readable or a loop is marked active; getReader() is outside the try,
\* so on a locked stream the task dies with the mark set.
HookStartReadLoop(g, h, e) ==
    IF ~h.portRef \/ e[g].readable # "open" \/ h.readLoopActiveRef
    THEN [hook |-> h, ends |-> e]
    ELSE IF e[g].reader = "held"
         THEN [hook |-> [h EXCEPT !.readLoopActiveRef = TRUE, !.loop[g] = "failed"],
               ends |-> e]
         ELSE [hook |-> [h EXCEPT !.readLoopActiveRef = TRUE, !.readerRef = g,
                                  !.loop[g] = "read"],
               ends |-> [e EXCEPT ![g].reader = "held"]]

\* startReadLoop of the hook: the finally block releases the reader the loop
\* took and clears readerRef.
HookReadLoopExit(g, h, e) ==
    [hook |-> [h EXCEPT !.readerRef = 0, !.loop[g] = "done"],
     ends |-> [e EXCEPT ![g].reader = "released"]]

\* connect() of the hook up to its first await.
SerialConnect ==
    /\ connectionMode = "serial"
    /\ hook.connect.pc = "idle"
    /\ hook.connect.calls < MaxConnects
    /\ hook' = IF serial
               THEN [hook EXCEPT !.status = "connecting",
                                 !.connect = [pc |-> "requestPort", calls |-> @.calls + 1,
                                              result |-> "none"]]
               ELSE [hook EXCEPT !.status = "error",
                                 !.connect = [pc |-> "idle", calls |-> @.calls + 1,
                                              result |-> "false"]]
    /\ UNCHANGED <<port, ends>>
    /\ HookFrame

\* The user picked a port, the one picked last or another one that is
\* closed: open() is called, and rejected at once when the port is not closed.
SerialRequestPortResolves ==
    /\ hook.connect.pc = "requestPort"
    /\ \E other \in BOOLEAN :
           IF port.state = "closed" \/ other
           THEN /\ port' = [port EXCEPT !.state = "opening", !.by = "serial"]
                /\ hook' = [hook EXCEPT !.connect.pc = "open"]
           ELSE /\ port' = [port EXCEPT !.by = "serial"]
                /\ hook' = [hook EXCEPT !.connect.pc = "openRejected"]
    /\ UNCHANGED ends
    /\ HookFrame

\* requestPort() or open() was rejected: the catch block, status 'error'.
SerialConnectFails ==
    /\ hook.connect.pc \in {"requestPort", "open", "openRejected"}
    /\ port' = IF hook.connect.pc = "open" THEN [port EXCEPT !.state = "closed"] ELSE port
    /\ hook' = [hook EXCEPT !.status = "error",
                            !.connect.pc = "idle", !.connect.result = "false"]
    /\ UNCHANGED ends
    /\ HookFrame

\* open() resolved: portRef, status 'connected', the read loop, the listener
\* for the port's disconnect event, return true.
SerialOpenResolves ==
    /\ hook.connect.pc = "open"
    /\ LET g == port.opens + 1
           r == HookStartReadLoop(g, [hook EXCEPT !.portRef = TRUE, !.status = "connected"],
                                  ends)
       IN  /\ port' = [port EXCEPT !.state = "opened", !.opens = g]
           /\ ends' = r.ends
           /\ hook' = [r.hook EXCEPT !.listening = @ \cup {g},
                                     !.connect.pc = "idle", !.connect.result = "true"]
    /\ HookFrame

\* The pending read of the hook's loop got a chunk: onData(value), then the
\* loop goes round while it is marked active.
SerialReadChunk(g) ==
    /\ hook.loop[g] = "read"
    /\ ends[g].reader = "held" /\ ends[g].readable = "open"
    /\ hook.delivered < MaxPumped
    /\ LET h == [hook EXCEPT !.delivered = @ + 1]
           r == IF h.readLoopActiveRef THEN [hook |-> h, ends |-> ends]
                ELSE HookReadLoopExit(g, h, ends)
       IN  hook' = r.hook /\ ends' = r.ends
    /\ UNCHANGED port
    /\ HookFrame

\* The pending read ended (done) or failed: break or catch, then finally.
SerialReadEnds(g) ==
    /\ hook.loop[g] = "read"
    /\ ends[g].reader = "released" \/ ends[g].readable # "open"
    /\ LET r == HookReadLoopExit(g, hook, ends)
       IN  hook' = r.hook /\ ends' = r.ends
    /\ UNCHANGED port
    /\ HookFrame

\* disconnect() of the hook from `if (portRef.current)` on (writerRef is
\* never set, so the writer step never runs): close() of the port, or the
\* end with status 'disconnected'.
HookDisconnectPort(h, e) ==
    IF ~h.portRef
    THEN [h EXCEPT !.status = "disconnected",
                   !.disconnect.pc = "idle", !.disconnect.result = "returned"]
    ELSE IF port.state = "opened" /\ ~StreamsLocked([ends |-> e])
         THEN [h EXCEPT !.disconnect.pc = "close", !.disconnect.on = port.opens]
         ELSE [h EXCEPT !.disconnect.pc = "rejected"]

\* disconnect() of the hook up to its first await.
SerialDisconnect ==
    /\ connectionMode = "serial"
    /\ hook.disconnect.pc = "idle"
    /\ hook.disconnect.calls < MaxDisconnects
    /\ LET h == [hook EXCEPT !.readLoopActiveRef = FALSE,
                             !.disconnect = [pc |-> "idle", on |-> 0,
                                             calls |-> @.calls + 1, result |-> "none"]]
           r == hook.readerRef
       IN  IF r # 0
           THEN /\ hook' = [h EXCEPT !.disconnect.pc = "cancel"]
                /\ ends' = [ends EXCEPT ![r].readable = IF @ = "open" THEN "closed" ELSE @]
           ELSE /\ hook' = HookDisconnectPort(h, ends)
                /\ ends' = ends
    /\ UNCHANGED port
    /\ HookFrame

\* reader.cancel() resolved, after the loop that awaited the read has run
\* on: readerRef = null, then the port.
SerialCancelResolves ==
    /\ hook.disconnect.pc = "cancel"
    /\ \A g \in Opens : hook.loop[g] # "read" \/ ends[g].readable = "open"
    /\ hook' = HookDisconnectPort([hook EXCEPT !.readerRef = 0], ends)
    /\ UNCHANGED <<port, ends>>
    /\ HookFrame

\* close() of the port resolved: the port it was called on is closed,
\* portRef = null, status 'disconnected'.
SerialCloseResolves ==
    /\ hook.disconnect.pc = "close"
    /\ port' = IF hook.disconnect.on = port.opens /\ port.state = "opened"
               THEN [port EXCEPT !.state = "closed"] ELSE port
    /\ ends' = [ends EXCEPT ![hook.disconnect.on].readable = "closed",
                            ![hook.disconnect.on].writable = "closed"]
    /\ hook' = [hook EXCEPT !.portRef = FALSE, !.status = "disconnected",
                            !.disconnect.pc = "idle", !.disconnect.on = 0,
                            !.disconnect.result = "returned"]
    /\ HookFrame

\* close() of the port was rejected: disconnect throws, the state is not set.
SerialDisconnectThrows ==
    /\ hook.disconnect.pc = "rejected"
    /\ hook' = [hook EXCEPT !.disconnect.pc = "idle", !.disconnect.result = "threw"]
    /\ UNCHANGED <<port, ends>>
    /\ HookFrame

\* The disconnect event of a port reaches the listener connect() added to
\* it: status 'disconnected', portRef = null.
SerialDisconnectEvent(g) ==
    /\ g \in hook.listening
    /\ ends[g].readable = "ended"
    /\ hook' = [hook EXCEPT !.status = "disconnected", !.portRef = FALSE,
                            !.listening = @ \ {g}]
    /\ UNCHANGED <<port, ends>>
    /\ HookFrame

\* write(data) of the hook up to its await: it throws without a writable,
\* getWriter() throws on a locked stream, otherwise the write is pending.
SerialWrite ==
    /\ connectionMode = "serial"
    /\ hook.sent < MaxPumped
    /\ hook.portRef /\ port.state = "opened"
    /\ ends[port.opens].writable = "open" /\ ends[port.opens].writer # "held"
    /\ hook' = [hook EXCEPT !.writing = @ \cup {port.opens}, !.sent = @ + 1]
    /\ ends' = [ends EXCEPT ![port.opens].writer = "held"]
    /\ UNCHANGED port
    /\ HookFrame

\* The pending write of write(data) settled: finally, writer.releaseLock().
SerialWriteSettles(g) ==
    /\ g \in hook.writing
    /\ hook' = [hook EXCEPT !.writing = @ \ {g}]
    /\ ends' = [ends EXCEPT ![g].writer = "released"]
    /\ UNCHANGED port
    /\ HookFrame

(* --------------------- the connection and its loops -------------------- *)

\* Modules a behaviour of the connection starts with: a complete one, one
\* that connect() does not bind, one whose bind throws.
ConnMissing == {{}, {"rx_head_ptr"}, {"tx_head_ptr"}}

InitConn ==
    /\ Init
    /\ focus = "all"
    /\ origin = 0
    /\ module.HEAPU8 /\ ~module.wasmMemory /\ module.underscore
    /\ module.capacity = MaxCapacity
    /\ module.exports \in {Accessors \ miss : miss \in ConnMissing}
    /\ connectionMode = "serial" => module.exports = Accessors

\* The steps of the connection in either mode; the module's traffic goes
\* through the channels in the mode that bridges them to the device.
NextConn ==
    \/ OnRuntimeInitialized
    \/ connectionMode = "wasm" /\ CallConnect
    \/ RequestPortResolves
    \/ RequestPortRejects
    \/ OpenResolves
    \/ OpenRejects
    \/ \E g \in Opens, len \in 1 .. MaxLen : ReadChunk(g, len)
    \/ \E g \in Opens : ReadEnds(g)
    \/ \E g \in Opens : TxWake(g)
    \/ \E g \in Opens : TxWriteSettles(g)
    \/ connectionMode = "wasm" /\ CallDisconnect
    \/ CancelResolves
    \/ CloseWriterResolves
    \/ CloseDeviceResolves
    \/ DisconnectThrows
    \/ \E g \in Opens : DeviceEnds(g)
    \/ SerialConnect
    \/ SerialRequestPortResolves
    \/ SerialConnectFails
    \/ SerialOpenResolves
    \/ \E g \in Opens : SerialReadChunk(g)
    \/ \E g \in Opens : SerialReadEnds(g)
    \/ SerialDisconnect
    \/ SerialCancelResolves
    \/ SerialCloseResolves
    \/ SerialDisconnectThrows
    \/ \E g \in Opens : SerialDisconnectEvent(g)
    \/ SerialWrite
    \/ \E g \in Opens : SerialWriteSettles(g)
    \/ \E len \in 1 .. MaxLen :
           connectionMode = "wasm" /\ TotalOffered + len <= MaxPumped /\ ModulePushCall(len)
    \/ connectionMode = "wasm" /\ ModulePopCall("rx", MaxLen)

SpecConn == InitConn /\ [][NextConn]_vars

\* The bridge of a complete module to the device, from the module's output
\* to the writes of the write loop, for as long as nobody disconnects.
InitTx ==
    /\ InitConn
    /\ connectionMode = "wasm"
    /\ module.exports = Accessors

NextTx ==
    \/ OnRuntimeInitialized
    \/ CallConnect
    \/ RequestPortResolves
    \/ RequestPortRejects
    \/ OpenResolves
    \/ OpenRejects
    \/ \E g \in Opens : ReadEnds(g)
    \/ \E g \in Opens : TxWake(g)
    \/ \E g \in Opens : TxWriteSettles(g)
    \/ \E g \in Opens : DeviceEnds(g)
    \/ \E len \in 1 .. MaxLen : TotalOffered + len <= MaxPumped /\ ModulePushCall(len)

\* The timer of the write loop fires, and the device settles the writes it
\* was given.
SpecTxFair ==
    /\ InitTx /\ [][NextTx]_vars
    /\ WF_vars(\E g \in Opens : TxWake(g))
    /\ WF_vars(\E g \in Opens : TxWriteSettles(g))

(* ------------------ App and useProxmarkWasm: the handlers -------------- *)

\* 'hw connect -p /dev/webserial', scaled to the model: its first two characters.
HwConnect == <<104, 119>>

\* What a step of a handler leaves alone, the transports included.
AppFrame ==
    UNCHANGED <<module, runtime, isReady, uart, bindCount, initResult, origin, focus,
                frame, wframe, popped, serial, stdio, usb, port, ends, conn, disc, rloop,
                tloop, written, hook>>

\* handleConnect in WASM mode: connectDevice is entered with the isReady of
\* the render its closure was made in, and calls pm3WebUSB.connect().
WasmConnectDevice ==
    /\ connectionMode = "wasm"
    /\ app.connectDevice.pc = "idle"
    /\ conn.pc = "idle" /\ conn.calls < MaxConnects
    /\ app' = [app EXCEPT !.connectDevice =
                              [pc |-> "call", at |-> conn.calls, isReady |-> isReady]]
    /\ UNCHANGED <<heap, offered, accepted, connectionMode>>
    /\ AppFrame

\* The connect() call connectDevice is about to make, or awaits.
ConnectCallDue == app.connectDevice.pc = "call" /\ conn.calls = app.connectDevice.at
ConnectReturned ==
    app.connectDevice.pc = "call" /\ conn.calls > app.connectDevice.at /\ conn.pc = "idle"

\* connectDevice after `await window.pm3WebUSB.connect()`:
\* setIsDeviceConnected(connected), and sendCommand of the connect line when
\* connected and isReady, both as the closure has them.
WasmConnectDeviceResumes ==
    /\ ConnectReturned
    /\ LET connected == conn.result = "true"
           r == IF connected /\ app.connectDevice.isReady
                THEN PushStdinAll(HwConnect \o <<Newline>>, uart, heap, <<>>)
                ELSE [h |-> heap, acc |-> <<>>]
       IN  /\ app' = [app EXCEPT !.isDeviceConnected = connected,
                                 !.connectDevice.pc = "idle"]
           /\ heap' = r.h
           /\ accepted' = [accepted EXCEPT !["stdin"] = @ \o r.acc]
           /\ offered' = [offered EXCEPT !["stdin"] =
                              @ + (IF connected /\ app.connectDevice.isReady
                                   THEN Len(HwConnect) ELSE 0)]
    /\ UNCHANGED connectionMode
    /\ AppFrame

\* handleDisconnect in WASM mode (then = "stay"), or the Serial button while
\* the mode is WASM and isDeviceConnected (then = "serial"): disconnectDevice
\* is entered and calls pm3WebUSB.disconnect().
WasmDisconnectDevice(then) ==
    /\ connectionMode = "wasm"
    /\ app.disconnectDevice.pc = "idle"
    /\ disc.pc = "idle" /\ disc.calls < MaxDisconnects
    /\ then = "serial" => app.isDeviceConnected
    /\ app' = [app EXCEPT !.disconnectDevice =
                              [pc |-> "call", at |-> disc.calls, then |-> then]]
    /\ UNCHANGED <<heap, offered, accepted, connectionMode>>
    /\ AppFrame

\* The disconnect() call disconnectDevice is about to make, or awaits.
DisconnectCallDue == app.disconnectDevice.pc = "call" /\ disc.calls = app.disconnectDevice.at
DisconnectReturned ==
    app.disconnectDevice.pc = "call" /\ disc.calls > app.disconnectDevice.at /\ disc.pc = "idle"

\* disconnectDevice after `await window.pm3WebUSB.disconnect()`:
\* setIsDeviceConnected(false), and for the Serial button
\* setConnectionMode('serial'); nothing of it when disconnect() threw.
WasmDisconnectDeviceResumes ==
    /\ DisconnectReturned
    /\ IF disc.result = "returned"
       THEN /\ app' = [app EXCEPT !.isDeviceConnected = FALSE,
                                  !.disconnectDevice.pc = "idle"]
            /\ connectionMode' = IF app.disconnectDevice.then = "serial"
                                 THEN "serial" ELSE connectionMode
       ELSE /\ app' = [app EXCEPT !.disconnectDevice.pc = "idle"]
            /\ connectionMode' = connectionMode
    /\ UNCHANGED <<heap, offered, accepted>>
    /\ AppFrame

\* The Serial button while the mode is WASM and isDeviceConnected is false.
SwitchToSerial ==
    /\ connectionMode = "wasm"
    /\ ~app.isDeviceConnected
    /\ connectionMode' = "serial"
    /\ UNCHANGED <<heap, offered, accepted, app>>
    /\ AppFrame

\* The WASM button while the mode is serial and the status is 'connected':
\* the handler calls serialActions.disconnect().
SwitchToWasmDisconnects ==
    /\ connectionMode = "serial"
    /\ hook.status = "connected"
    /\ app.toWasm.pc = "idle"
    /\ hook.disconnect.pc = "idle" /\ hook.disconnect.calls < MaxDisconnects
    /\ app' = [app EXCEPT !.toWasm = [pc |-> "call", at |-> hook.disconnect.calls]]
    /\ UNCHANGED <<heap, offered, accepted, connectionMode>>
    /\ AppFrame

\* The disconnect() call of the hook the WASM button is about to make, or awaits.
SerialDisconnectCallDue == app.toWasm.pc = "call" /\ hook.disconnect.calls = app.toWasm.at
SerialDisconnectReturned ==
    app.toWasm.pc = "call" /\ hook.disconnect.calls > app.toWasm.at
        /\ hook.disconnect.pc = "idle"

\* The WASM button after `await serialActions.disconnect()`:
\* setConnectionMode('wasm'), unless disconnect() threw.
SwitchToWasmResumes ==
    /\ SerialDisconnectReturned
    /\ app' = [app EXCEPT !.toWasm.pc = "idle"]
    /\ connectionMode' = IF hook.disconnect.result = "returned" THEN "wasm"
                         ELSE connectionMode
    /\ UNCHANGED <<heap, offered, accepted>>
    /\ AppFrame

\* The WASM button while the mode is serial and the status is not 'connected'.
SwitchToWasm ==
    /\ connectionMode = "serial"
    /\ hook.status # "connected"
    /\ connectionMode' = "wasm"
    /\ UNCHANGED <<heap, offered, accepted, app>>
    /\ AppFrame

\* `port` is the port picked last.  The steps of a transport that look at its
\* own port are followed for as long as the other transport has not picked
\* a port after it.
WasmPortIsLast == port.by # "serial"
SerialPortIsLast == port.by # "wasm"

\* The connect() calls of the two transports together stay within the
\* opens a behaviour follows.
ConnectsLeft == conn.calls + hook.connect.calls < MaxConnects

\* App starts in WASM mode, with a module that exports every accessor or
\* lacks the Stdin triple.
InitApp ==
    /\ Init
    /\ focus = "all"
    /\ origin = 0
    /\ serial
    /\ connectionMode = "wasm"
    /\ module.HEAPU8 /\ ~module.wasmMemory /\ module.underscore
    /\ module.capacity = MaxCapacity
    /\ module.exports \in {Accessors, Accessors \ StdinAccessors}

\* A handler has been entered and its call of the transport comes next, in
\* the same task, or the call has returned and the handler resumes in a
\* microtask: nothing else runs in between.
HandlerDue ==
    \/ ConnectCallDue \/ DisconnectCallDue \/ SerialDisconnectCallDue
    \/ ConnectReturned \/ DisconnectReturned \/ SerialDisconnectReturned

NextApp ==
    \/ ~HandlerDue /\ OnRuntimeInitialized
    \/ ~HandlerDue /\ ConnectsLeft /\ WasmConnectDevice
    \/ ConnectCallDue /\ CallConnect
    \/ ~HandlerDue /\ RequestPortResolves
    \/ ~HandlerDue /\ RequestPortRejects
    \/ ~HandlerDue /\ WasmPortIsLast /\ OpenResolves
    \/ ~HandlerDue /\ WasmPortIsLast /\ OpenRejects
    \/ WasmConnectDeviceResumes
    \/ \E g \in Opens : ~HandlerDue /\ ReadEnds(g)
    \/ \E g \in Opens : ~HandlerDue /\ TxWake(g)
    \/ \E then \in {"stay", "serial"} : ~HandlerDue /\ WasmPortIsLast /\ WasmDisconnectDevice(then)
    \/ DisconnectCallDue /\ CallDisconnect
    \/ ~HandlerDue /\ WasmPortIsLast /\ CancelResolves
    \/ ~HandlerDue /\ WasmPortIsLast /\ CloseWriterResolves
    \/ ~HandlerDue /\ CloseDeviceResolves
    \/ ~HandlerDue /\ DisconnectThrows
    \/ WasmDisconnectDeviceResumes
    \/ ~HandlerDue /\ SwitchToSerial
    \/ ~HandlerDue /\ ConnectsLeft /\ SerialConnect
    \/ ~HandlerDue /\ SerialRequestPortResolves
    \/ ~HandlerDue /\ SerialPortIsLast /\ SerialConnectFails
    \/ ~HandlerDue /\ SerialPortIsLast /\ SerialOpenResolves
    \/ \E g \in Opens : ~HandlerDue /\ SerialReadEnds(g)
    \/ (SerialDisconnectCallDue \/ ~HandlerDue) /\ SerialPortIsLast /\ SerialDisconnect
    \/ ~HandlerDue /\ SerialPortIsLast /\ SerialCancelResolves
    \/ ~HandlerDue /\ SerialCloseResolves
    \/ ~HandlerDue /\ SerialDisconnectThrows
    \/ ~HandlerDue /\ SerialPortIsLast /\ SwitchToWasmDisconnects
    \/ SwitchToWasmResumes
    \/ ~HandlerDue /\ SwitchToWasm

SpecApp == InitApp /\ [][NextApp]_vars

(* ---------------------- useProxmarkWasm: the output -------------------- *)

\* `outputBufferRef.current.length > 100`
FlushLimit == 100

\* String.fromCharCode(code): the code unit code modulo 2^16.
FromCharCode(code) == code % 65536

\* The codes the module writes: the newline and a letter.
OutCodes == {Newline, 65}

\* flushOutput: a buffer that is not empty goes to onOutput and is emptied.
FlushOutput(s) ==
    IF s.outputBuffer # <<>>
    THEN [s EXCEPT !.delivered = @ \o s.outputBuffer, !.outputBuffer = <<>>]
    ELSE s

\* stdout(code): '\r\n' for a newline, else the character of the code, is
\* added to the buffer; the buffer is flushed on a newline or when it has
\* grown beyond 100 characters.
Stdout(s, code) ==
    LET s1 == [s EXCEPT !.outputBuffer =
                   @ \o (IF code = Newline THEN <<13, 10>> ELSE <<FromCharCode(code)>>)]
    IN  IF code = Newline \/ Len(s1.outputBuffer) > FlushLimit
        THEN FlushOutput(s1) ELSE s1

\* stderr(code): same as stdout.
Stderr(s, code) == Stdout(s, code)

\* The number of newlines in the codes q.
RECURSIVE Newlines(_)
Newlines(q) ==
    IF q = <<>> THEN 0 ELSE (IF Head(q) = Newline THEN 1 ELSE 0) + Newlines(Tail(q))

\* The module may write this code now.
MayWrite(code) ==
    /\ ~stdio.idle
    /\ Len(stdio.emitted) < MaxEmitted
    /\ code = Newline => Newlines(stdio.emitted) < MaxNewlines

\* The module writes a code to its standard output.
ModuleStdout(code) ==
    /\ MayWrite(code)
    /\ stdio' = [Stdout(stdio, code) EXCEPT !.emitted = @ \o <<code>>]
    /\ UNCHANGED <<module, runtime, isReady, uart, heap, bindCount, initResult, origin,
                   focus, ringVars, serial, app, hookVars, usb, port, ends, conn, disc,
                   rloop, tloop, written>>

\* The module writes a code to its standard error.
ModuleStderr(code) ==
    /\ MayWrite(code)
    /\ stdio' = [Stderr(stdio, code) EXCEPT !.emitted = @ \o <<code>>]
    /\ UNCHANGED <<module, runtime, isReady, uart, heap, bindCount, initResult, origin,
                   focus, ringVars, serial, app, hookVars, usb, port, ends, conn, disc,
                   rloop, tloop, written>>

\* The module has written all it had to write (it waits for input).
ModuleIdles ==
    /\ ~stdio.idle
    /\ stdio' = [stdio EXCEPT !.idle = TRUE]
    /\ UNCHANGED <<module, runtime, isReady, uart, heap, bindCount, initResult, origin,
                   focus, ringVars, serial, app, hookVars, usb, port, ends, conn, disc,
                   rloop, tloop, written>>

InitStdout ==
    /\ InitTx
    /\ serial

NextStdout ==
    \/ \E code \in OutCodes : ModuleStdout(code)
    \/ \E code \in OutCodes : ModuleStderr(code)
    \/ ModuleIdles

SpecStdout == InitStdout /\ [][NextStdout]_vars

(* ------------------------- ring channel properties --------------------- *)

Occupancy(c) == (heap.U32[HeadWord(c)] - heap.U32[TailWord(c)]) % Modulus

IsPrefix(p, q) == Len(p) <= Len(q) /\ SubSeq(q, 1, Len(p)) = p

Range(q) == {q[k] : k \in 1 .. Len(q)}

\* C1: on every channel, in every reachable state and under any interleaving
\* of the producer's and the consumer's steps, the number of queued bytes
\* (head - tail) mod 2^w is at least 0 and at most the capacity.
OccupancyWithinCapacity ==
    \A c \in Channels : Occupancy(c) >= 0 /\ Occupancy(c) <= module.capacity

\* A channel that is full again after its consumer has taken bytes from it.
FullAfterPop ==
    \E c \in Channels : Occupancy(c) = module.capacity /\ popped[c] # <<>>

\* C2: with the steps of producer and consumer interleaved arbitrarily, the
\* bytes popped so far are a prefix of the bytes accepted by pushes: nothing
\* is duplicated, reordered or skipped.
PoppedIsPrefixOfAccepted ==
    \A c \in Channels : IsPrefix(popped[c], accepted[c])

\* The producer and the consumer of RX are both in the middle of a copy, after
\* an earlier byte went through.
CopiesOverlap ==
    /\ frame.op = "pushRx" /\ frame.pc = "copy"
    /\ wframe.op = "tryPop" /\ wframe.chan = "rx" /\ wframe.pc = "copy"
    /\ popped["rx"] # <<>>

PushRxReturned == frame.op = "pushRx" /\ frame.pc = "ret" /\ uart.heapU8

\* The RX head when the returned pushRx was called, and the room it found.
HeadAtCall == (origin + Len(accepted["rx"]) - frame.srcOff) % Modulus
FreeAtCall == module.capacity - ((HeadAtCall - frame.tail) % Modulus)

\* C3: a push of any length writes exactly min(free, len) bytes, free being
\* capacity - ((head - tail) mod 2^w) at call time; the bytes written are the
\* first bytes of the input in order, head advances by exactly that count and
\* the rest of the input is dropped.
PushWritesMinFreeLen ==
    PushRxReturned =>
        LET stored == frame.srcOff
            acc == accepted["rx"]
        IN  /\ stored = Min(FreeAtCall, Len(frame.src))
            /\ heap.U32[HeadWord("rx")] = (HeadAtCall + stored) % Modulus
            /\ \A k \in 0 .. stored - 1 :
                   heap.U8["rx"][(HeadAtCall + k) % module.capacity] = frame.src[k + 1]
            /\ SubSeq(acc, Len(acc) - stored + 1, Len(acc)) = SubSeq(frame.src, 1, stored)
            /\ \A k \in stored + 1 .. Len(frame.src) : frame.src[k] \notin Range(acc)

\* A push of capacity + 1 bytes on an empty channel has returned: capacity
\* bytes written, the last one lost.
PushOverflowed ==
    /\ PushRxReturned
    /\ Len(frame.src) = module.capacity + 1
    /\ frame.srcOff = module.capacity
    /\ Len(accepted["rx"]) = module.capacity

\* A pop that has returned and was given room for a whole buffer.
FullPopReturned(f) ==
    /\ f.op \in {"popTx", "tryPop"} /\ f.pc = "ret"
    /\ f.op = "popTx" => uart.heapU8
    /\ f.maxBytes >= module.capacity /\ Len(f.out) >= module.capacity

\* C4: over any sequence of pushes and pops on a channel, wraparound of the
\* buffer included, the popped output concatenated equals the accepted pushes
\* concatenated: once the channel is drained the two are equal, and a pop of
\* up to capacity bytes returns everything that had been pushed when it looked.
RoundTrip ==
    /\ \A c \in Channels : Occupancy(c) = 0 => popped[c] = accepted[c]
    /\ \A f \in {frame, wframe} :
           FullPopReturned(f) =>
               popped[f.chan] = SubSeq(accepted[f.chan], 1, (f.head - origin) % Modulus)

\* A channel drained after its traffic passed the end of the buffer twice.
DrainedAfterWraps ==
    \E c \in Channels :
        /\ Occupancy(c) = 0
        /\ Len(popped[c]) >= 2 * module.capacity

PopTxDone == frame.op = "popTx" /\ frame.pc \in {"ret", "throw"} /\ uart.heapU8

\* C5: popTx(maxBytes, out) returns min(available, maxBytes, len(out)) for
\* every occupancy, maxBytes and length of out, copies that many of the oldest
\* queued bytes into out and advances tail by that count.
PopReturnsMinOfThree ==
    PopTxDone =>
        /\ frame.pc = "ret"
        /\ LET before == Len(popped["tx"]) - frame.ret
               avail == (frame.head - (origin + before)) % Modulus
           IN  /\ frame.ret = Min(avail, Min(frame.maxBytes, Len(frame.out)))
               /\ SubSeq(frame.out, 1, frame.ret)
                      = SubSeq(accepted["tx"], before + 1, before + frame.ret)
               /\ heap.U32[TailWord("tx")] = (origin + before + frame.ret) % Modulus

\* C6: popTx on an empty channel returns 0 and leaves tail, head and the
\* buffer unchanged, each time it is called.
PopOnEmptyIsNoOp ==
    [][(/\ frame.op = "popTx" /\ frame.pc = "load_tail"
        /\ Load(heap, TailIdx(uart, "tx")) = frame.head
        /\ frame' # frame)
       => (frame'.pc = "ret" /\ frame'.ret = 0 /\ heap' = heap /\ popped' = popped)]_vars

\* popTx has returned 0 from a bound TX channel that carried bytes before.
PopOnEmptyReturned ==
    /\ frame.op = "popTx" /\ frame.pc = "ret" /\ frame.ret = 0
    /\ uart.heapU8
    /\ frame.head = frame.tail
    /\ popped["tx"] # <<>>

(* --------------------------- binding properties ------------------------ *)

\* What a call would do in the current state.
PushRxNow == MainRun(CallPushRx(uart, <<1>>), uart, heap)
PopTxNow == MainRun(CallPopTx(uart, TmpLength, Zeros(TmpLength)), uart, heap)
PushStdinNow == MainRun(CallPushStdin(uart, 1), uart, heap)

PushRxIsNoOp == PushRxNow.h = heap /\ PushRxNow.f.srcOff = 0
PopTxIsNoOp == PopTxNow.h = heap /\ PopTxNow.f.ret = 0
PushStdinIsNoOp == PushStdinNow.h = heap /\ PushStdinNow.f.srcOff = 0

\* What sendCommand("\x01\x02") would do once the hook is ready.
SendCommandNow == PushStdinAll(<<1, 2, Newline>>, uart, heap, <<>>)
SendCommandIsNoOp == SendCommandNow.h = heap /\ SendCommandNow.acc = <<>>

RequiredMissing == ~(RequiredAccessors \subseteq module.exports)

\* C7: when a required accessor is missing, bind fails as a whole: the
\* failure is a reported binding error, not an unrelated exception, and
\* afterwards every push and pop is a no-op; RX is never active without TX.
BindFailsAsAWhole ==
    (runtime = "initialized" /\ RequiredMissing) =>
        /\ initResult \in {"no_heap", "no_rx_head"}
        /\ PushRxIsNoOp /\ PopTxIsNoOp /\ PushStdinIsNoOp

OnlyStdinMissing ==
    /\ module.exports = Accessors \ StdinAccessors
    /\ module.HEAPU8 \/ module.wasmMemory

\* With the Stdin triple missing: the bind went through, a pushRx stores what
\* fits, a popTx hands out the oldest bytes of TX, and Stdin's memory is as the
\* module left it.
StdinDisabledState ==
    /\ initResult = "ok" /\ isReady
    /\ LET r == PushRxNow
           n == Min(module.capacity - Occupancy("rx"), 1)
           head == heap.U32[HeadWord("rx")]
       IN  /\ r.f.srcOff = n
           /\ r.h.U32[HeadWord("rx")] = (head + n) % Modulus
           /\ n = 1 => r.h.U8["rx"][head % module.capacity] = 1
    /\ LET r == PopTxNow
           n == Min(Occupancy("tx"), TmpLength)
           done == Len(popped["tx"])
       IN  /\ r.f.ret = n
           /\ r.h.U32[TailWord("tx")] = (heap.U32[TailWord("tx")] + n) % Modulus
           /\ SubSeq(r.f.out, 1, n) = SubSeq(accepted["tx"], done + 1, done + n)
    /\ IsPrefix(popped["rx"], accepted["rx"])
    /\ IsPrefix(popped["tx"], accepted["tx"])
    /\ PushStdinIsNoOp /\ SendCommandIsNoOp
    /\ accepted["stdin"] = <<>>
    /\ heap.U32[HeadWord("stdin")] = origin /\ heap.U32[TailWord("stdin")] = origin
    /\ heap.U8["stdin"] = NewHeap(origin).U8["stdin"]
    /\ heap.U8["low"] = NewHeap(origin).U8["low"]

\* C8: when only the Stdin accessor triple is missing, bind succeeds, RX push
\* and TX pop work normally, and every Stdin push (pushStdin, sendCommand,
\* sendInput) is a no-op that changes no shared memory.
StdinOptional ==
    (runtime = "initialized" /\ OnlyStdinMissing) => StdinDisabledState

\* A module without the Stdin triple after RX, TX and Stdin were all used.
StdinDisabledAndUsed ==
    /\ runtime = "initialized" /\ OnlyStdinMissing
    /\ offered["stdin"] > 0
    /\ accepted["rx"] # <<>>
    /\ popped["tx"] # <<>>

(* -------------------------- connection properties ---------------------- *)

\* C9: binding is one-shot: once an init() has produced the channel set, no
\* later operation, connect() included, binds again, so the channel
\* descriptors and the capacity never change after the first bind.
BindingIsOneShot ==
    [][bindCount >= 1 => bindCount' = bindCount /\ uart' = uart]_vars

\* C9, as amended: connect() binds again, to the same descriptors and capacity.
DescriptorsStable ==
    [][bindCount >= 1 => uart' = uart]_vars

\* A connect() has bound the module that onRuntimeInitialized had bound.
BoundAgainByConnect ==
    /\ bindCount >= 2
    /\ conn.calls >= 1 /\ conn.result = "true"

\* C10: whenever a connect() begun on a disconnected connection fails, it has
\* started neither loop and the connection is left disconnected.
ConnectFailureLeavesDisconnected ==
    [][(conn' # conn /\ conn'.pc = "idle" /\ conn'.result = "false" /\ conn'.fresh) =>
           /\ ~conn'.loops
           /\ \A g \in Opens : rloop'[g] = rloop[g] /\ tloop'[g] = tloop[g]
           /\ ~usb'.isConnected /\ ~usb'.readLoopRunning /\ ~usb'.txLoopRunning]_vars

\* The moves of the connection state the state machine allows; the hook has
\* no status for Disconnecting, so its move from Connected to Disconnected
\* stands for the two moves through it.
StatusMoves ==
    {<<"disconnected", "connecting">>, <<"connecting", "connected">>,
     <<"connected", "disconnected">>, <<"error", "disconnected">>}
        \cup {<<st, "error">> : st \in {"disconnected", "connecting", "connected"}}

\* C11: the connection state only moves along Disconnected -> Connecting ->
\* Connected -> Disconnecting -> Disconnected, or from any state to Error,
\* and from Error only to Disconnected, by a disconnect().
StatusFollowsStateMachine ==
    [][hook'.status # hook.status =>
           /\ <<hook.status, hook'.status>> \in StatusMoves
           /\ hook.status = "error" => hook'.disconnect.calls > hook.disconnect.calls
                                           \/ hook.disconnect.pc # "idle"]_vars

\* A disconnect() of either transport ends in this step, by return or by
\* exception.
DisconnectEnds ==
    \/ disc' # disc /\ disc'.pc = "idle"
    \/ hook'.disconnect # hook.disconnect /\ hook'.disconnect.pc = "idle"

\* A reader or a writer of some generation of streams is held.
EndpointHeld ==
    \E g \in Opens : ends[g].reader = "held" \/ ends[g].writer = "held"

\* C12: when a disconnect() ends, by return or by exception, the device has
\* been closed and no reader or writer endpoint is still held: the release
\* steps all ran, whatever an earlier one threw.
DisconnectReleasesAll ==
    [][DisconnectEnds => (port'.state # "opened" /\ ~EndpointHeld')]_vars

\* The one disconnect() so far was called while the read loop was awaiting a
\* chunk and has ended, and the connect() in hand was called after it.
SubsequentConnect ==
    /\ disc.calls = 1 /\ disc.reading /\ disc.pc = "idle"
    /\ conn.calls = 2 /\ conn.fresh

\* C13: a disconnect() called while the read loop is awaiting a chunk of the
\* device returns without throwing and leaves the device and both endpoints
\* closed, and the connect() after it is not refused by the port and, when
\* it succeeds, holds the reader and the writer of the newly opened streams.
DisconnectWhileReading ==
    [][/\ (disc' # disc /\ disc'.pc = "idle" /\ disc'.reading) =>
              /\ disc'.result = "returned"
              /\ port'.state = "closed" /\ ~EndpointHeld'
       /\ (SubsequentConnect /\ conn.pc = "requestPort") => conn'.pc # "openRejected"
       /\ (SubsequentConnect /\ conn.pc = "open" /\ conn'.result = "true") =>
              /\ usb'.reader = port'.opens /\ usb'.writer = port'.opens
              /\ ends'[port'.opens].reader = "held" /\ ends'[port'.opens].writer = "held"]_vars

\* No connect() is in hand and no loop was ever started, or a disconnect()
\* has ended and nothing has connected since.
LoopsNeverStarted ==
    /\ conn.pc = "idle" /\ disc.pc = "idle"
    /\ \/ \A g \in Opens : rloop[g].pc = "none" /\ tloop[g].pc = "none"
       \/ disc.calls >= 1 /\ ~usb.isConnected

\* C14: a disconnect() called when the loops never started (before any
\* connect(), after a failed connect(), or a second time in a row) does not
\* throw and changes nothing.
DisconnectIsIdempotent ==
    [][(LoopsNeverStarted /\ disc'.calls = disc.calls + 1) =>
           /\ disc'.pc = "idle" /\ disc'.result = "returned"
           /\ usb' = usb /\ port' = port /\ ends' = ends]_vars

\* The device ended the streams of generation g, the read loop on them has
\* run to its end, and no disconnect() was ever called.
LostAndHandled(g) ==
    /\ ends[g].readable = "ended"
    /\ \/ /\ connectionMode = "wasm"
          /\ rloop[g].pc = "done" /\ conn.pc = "idle" /\ disc.calls = 0
       \/ /\ connectionMode = "serial"
          /\ hook.loop[g] = "done" /\ g \notin hook.listening
          /\ hook.connect.calls = 1 /\ hook.disconnect.calls = 0

\* C15: once the device has ended the connection from its side and the read
\* loop has run to its end on it, the connection is Disconnected, as after a
\* disconnect(): the running flags are cleared and the reader is released.
DeviceLossDisconnects ==
    \A g \in Opens :
        LostAndHandled(g) =>
            /\ ends[g].reader # "held"
            /\ connectionMode = "wasm" =>
                   ~usb.isConnected /\ ~usb.readLoopRunning /\ ~usb.txLoopRunning
            /\ connectionMode = "serial" => hook.status = "disconnected"

(* --------------------------- command properties ------------------------ *)

\* The channel set is bound, Stdin included.
StdinBound ==
    /\ bindCount >= 1 /\ isReady
    /\ uart.heapU8 /\ HeadIdx(uart, "stdin") # Undef

\* The first n bytes of channel c from its tail on, in the heap h.
RECURSIVE RingQueue(_, _, _)
RingQueue(c, h, n) ==
    IF n = 0 THEN <<>>
    ELSE RingQueue(c, h, n - 1)
             \o <<h.U8[c][(h.U32[TailWord(c)] + n - 1) % module.capacity]>>

\* The bytes queued in channel c, from its tail to its head.
Queued(c, h) ==
    RingQueue(c, h, (h.U32[HeadWord(c)] - h.U32[TailWord(c)]) % Modulus)

StdinQueued(h) == Queued("stdin", h)

Commands == {NextBytes("stdin", len) : len \in 1 .. MaxLen}

Broken ==
    \/ disc.calls > 0
    \/ port.opens > 1
    \/ \E g \in Opens : ends[g].writable # "open"

\* The channel set is bound and a write loop serves the open connection.
Draining ==
    /\ bindCount >= 1
    /\ usb.isConnected /\ usb.txLoopRunning
    /\ \E g \in Opens : tloop[g].pc \in {"sleep", "write"}
    /\ ~Broken

\* The chunk the write loop has popped and handed to the writer.
InFlight ==
    IF \E g \in Opens : tloop[g].pc = "write"
    THEN tloop[CHOOSE g \in Opens : tloop[g].pc = "write"].chunk
    ELSE <<>>

\* C17: while the connection stays Connected and the device accepts writes,
\* every byte the module puts in TX is written to the device, once and in
\* the order of TX: each accepted byte is written, in flight or still queued,
\* and it is written in the end; the loop never writes an empty chunk but
\* sleeps and polls again.
TxReachesDevice ==
    /\ [](Draining => /\ written \o InFlight \o Queued("tx", heap) = accepted["tx"]
                       /\ \A g \in Opens : tloop[g].pc = "write" => tloop[g].chunk # <<>>)
    /\ \A n \in 1 .. MaxPumped :
           (Draining /\ Len(accepted["tx"]) >= n) ~> (Len(written) >= n \/ Broken)

\* All the bytes the module has put in TX have been written to the device,
\* in more than one chunk.
TxDrained ==
    /\ Draining
    /\ Len(accepted["tx"]) = MaxPumped /\ written = accepted["tx"]
    /\ \E g \in Opens : tloop[g].pc = "sleep"

(* --------------------------- endpoint properties ----------------------- *)

\* C18: on every exit path of the read loop (flag cleared, end of stream,
\* exception, concurrent disconnect()) the reader the loop acquired is
\* released by the time the loop has finished.
ReadLoopReleasesReader ==
    [][\A g \in Opens :
           /\ (rloop[g].pc = "read" /\ rloop'[g].pc = "done") =>
                  ends'[rloop[g].via].reader = "released"
           /\ (hook.loop[g] = "read" /\ hook'.loop[g] = "done") =>
                  ends'[g].reader = "released"]_vars

\* C19: on every exit path of the write loop (flag cleared, exception during
\* a write, concurrent disconnect()) the writer the loop acquired is released
\* by the time the loop has finished.
TxLoopReleasesWriter ==
    [][\A g \in Opens :
           (tloop[g].pc \in {"sleep", "write", "rejected"} /\ tloop'[g].pc = "done") =>
               ends'[g].writer = "released"]_vars

\* The generations of streams on which a reader, or a writer, is open: held
\* by the program, on a stream that is open.
OpenReaders == {g \in Opens : ends[g].reader = "held" /\ ends[g].readable = "open"}
OpenWriters == {g \in Opens : ends[g].writer = "held" /\ ends[g].writable = "open"}

\* C20: in every reachable state, after any sequence of connect() and
\* disconnect() calls, connect() while connected included, at most one
\* reader endpoint and at most one writer endpoint are open.
AtMostOneEndpointEach ==
    Cardinality(OpenReaders) <= 1 /\ Cardinality(OpenWriters) <= 1

(* ------------------------ single channel properties -------------------- *)

\* C21: pushStdin, the single-byte push, follows the overflow policy of a
\* push: on a Stdin with free space it stores exactly one byte at head mod
\* capacity and advances head by 1; on a full Stdin it drops the byte and
\* leaves head, tail and the buffer unchanged; it never throws and every
\* step of it leads to its return.
PushOneFollowsPolicy ==
    [][(frame.op = "pushStdin" /\ Running(frame) /\ frame' # frame) =>
           LET cap == module.capacity
               head == heap.U32[HeadWord("stdin")]
               tail == heap.U32[TailWord("stdin")]
           IN  /\ frame'.pc # "throw"
               /\ frame.pc = "load_head" => heap' = heap /\ frame'.head = head
               /\ frame.pc = "load_tail" =>
                      /\ heap' = heap
                      /\ IF cap - ((frame.head - tail) % Modulus) > 0
                         THEN frame'.pc = "copy"
                         ELSE frame'.pc = "ret" /\ frame'.srcOff = 0
               /\ frame.pc = "copy" =>
                      /\ heap' = [heap EXCEPT !.U8["stdin"][frame.head % cap] = frame.src[1]]
                      /\ frame'.pc = "store"
               /\ frame.pc = "store" =>
                      /\ heap' = [heap EXCEPT !.U32[HeadWord("stdin")] =
                                                  (frame.head + 1) % Modulus]
                      /\ frame'.pc = "ret" /\ frame'.srcOff = 1]_vars

\* A pushStdin has dropped its byte on a Stdin that is full again after the
\* module took bytes from it.
PushOneDroppedOnFull ==
    /\ frame.op = "pushStdin" /\ frame.pc = "ret" /\ uart.heapU8
    /\ frame.free = 0 /\ frame.srcOff = 0
    /\ Occupancy("stdin") = module.capacity
    /\ popped["stdin"] # <<>>

\* The head, the tail and the buffer of channel c.
ChannelState(c) == <<heap.U32[HeadWord(c)], heap.U32[TailWord(c)], heap.U8[c]>>

\* C22: RX, TX and Stdin are independent: every step of a push or a pop on
\* one channel, on either side, leaves the head, the tail and the buffer of
\* the other two channels unchanged.
ChannelsIndependent ==
    [][\A c \in Channels :
           (\/ frame' # frame /\ Running(frame) /\ frame.chan # c
            \/ wframe' # wframe /\ Running(wframe) /\ wframe.chan # c)
               => ChannelState(c)' = ChannelState(c)]_vars

\* A channel has carried more bytes than its buffer holds, and the other two
\* are as the module set them up.
OneChannelUsed ==
    \E c \in Channels :
        /\ Len(popped[c]) > module.capacity
        /\ \A d \in Channels \ {c} :
               ChannelState(d) = <<origin, origin, NewHeap(origin).U8[d]>>

\* The heap h2 differs from h at most in the counter word w and the buffer
\* region r ("none" for no word, no region).
OnlyStored(h, h2, w, r) ==
    /\ \A x \in Words \ {w} : h2.U32[x] = h.U32[x]
    /\ \A x \in Regions \ {r} : h2.U8[x] = h.U8[x]

\* C23: single-writer discipline: every step of a producer-side operation
\* (pushRx, pushStdin, the module's push) stores only to the head and to the
\* buffer of its channel, never to a tail; every step of a consumer-side
\* operation (popTx, the module's pop) stores only to the tail of its
\* channel, never to a head or to a buffer cell.
SingleWriterPerField ==
    [][\A f \in {<<frame, frame'>>, <<wframe, wframe'>>} :
           (f[2] # f[1] /\ Running(f[1])) =>
               IF f[1].op \in {"pushRx", "pushStdin", "tryPush"}
               THEN OnlyStored(heap, heap', HeadWord(f[1].chan), f[1].chan)
               ELSE OnlyStored(heap, heap', TailWord(f[1].chan), "none")]_vars

\* Producer and consumer of one channel have both stored their counter many
\* times over: both counters have wrapped.
BothSidesStored ==
    \E c \in Channels :
        /\ origin = Modulus - 1
        /\ Len(popped[c]) >= 2 /\ Len(accepted[c]) > Len(popped[c])
        /\ Running(frame) /\ Running(wframe)

(* -------------------------- teardown properties ------------------------ *)

\* C24: disconnect() takes its steps in a fixed order: the running flags are
\* cleared by the call itself, close() of the device is only called once
\* the reader the object held was cancelled and the writer it held was
\* closed, and the state becomes Disconnected only in the step in which the
\* call returns, with the device closed.
DisconnectInOrder ==
    [][/\ disc'.calls = disc.calls + 1 =>
              ~usb'.readLoopRunning /\ ~usb'.txLoopRunning
       /\ hook'.disconnect.calls = hook.disconnect.calls + 1 => ~hook'.readLoopActiveRef
       /\ (disc'.pc = "closeDevice" /\ disc.pc # "closeDevice") =>
              usb'.reader = 0 /\ usb'.writer = 0
       /\ (hook'.disconnect.pc = "close" /\ hook.disconnect.pc # "close") =>
              hook'.readerRef = 0 /\ hook'.writerRef = 0
       /\ (disc' # disc /\ usb.isConnected /\ ~usb'.isConnected) =>
              disc'.pc = "idle" /\ disc'.result = "returned" /\ port'.state = "closed"
       /\ (hook'.disconnect # hook.disconnect /\ hook.status = "connected"
              /\ hook'.status = "disconnected") =>
              /\ hook'.disconnect.pc = "idle" /\ hook'.disconnect.result = "returned"
              /\ hook.portRef => port'.state = "closed"]_vars

(* --------------------------- counter wraparound ------------------------ *)

\* C25: with a capacity that is a power of two, the occupancy bound and
\* the FIFO order survive the wrap of the head and tail counters modulo
\* 2^w: (head - tail) mod 2^w is the number of bytes published and not yet
\* taken, it never exceeds the capacity, and the cells from tail mod
\* capacity on hold exactly those bytes, in the order they were published.
WrapPreservesFifo ==
    \A c \in Channels :
        LET done == Len(popped[c])
            all == Len(accepted[c])
        IN  /\ heap.U32[HeadWord(c)] = (origin + all) % Modulus
            /\ heap.U32[TailWord(c)] = (origin + done) % Modulus
            /\ Occupancy(c) = all - done
            /\ Occupancy(c) <= module.capacity
            /\ IsPrefix(popped[c], accepted[c])
            /\ Queued(c, heap) = SubSeq(accepted[c], done + 1, all)

\* A channel of the largest capacity is full while its head has wrapped to
\* a small value and its tail has not.
FullAcrossWrap ==
    \E c \in Channels :
        /\ heap.U32[HeadWord(c)] < heap.U32[TailWord(c)]
        /\ Occupancy(c) = module.capacity
        /\ module.capacity = MaxCapacity

\* C26: after disconnect() is called on a connection, both of its pump
\* loops terminate once their pending callbacks run: a read that a loop of
\* that connection awaits has been unblocked by the call, and the next turn
\* of its write loop (the end of its sleep, or of the write it awaits) is
\* its last.
DisconnectStopsLoops ==
    /\ [](\A g \in Opens :
              (disc.calls >= 1 /\ g <= disc.opens /\ rloop[g].pc = "read") =>
                  \/ ends[rloop[g].via].readable # "open"
                  \/ ends[rloop[g].via].reader = "released")
    /\ [][\A g \in Opens :
              (disc.calls >= 1 /\ g <= disc.opens /\ tloop'[g] # tloop[g]) =>
                  tloop'[g].pc = "done"]_vars

\* C27: the read loop pushes the chunks of the device into RX in arrival
\* order, and once a disconnect() has completed no byte is pushed into RX
\* (until a later connection is opened).
NoPushAfterDisconnect ==
    /\ [](\A i, j \in 1 .. Len(accepted["rx"]) :
              i < j => accepted["rx"][i] < accepted["rx"][j])
    /\ [][(disc.calls >= 1 /\ disc.pc = "idle" /\ port.opens = disc.opens) =>
              accepted'["rx"] = accepted["rx"]]_vars

(* --------------------------- publication order ------------------------ *)

Producing(f) == f.op \in {"pushRx", "pushStdin", "tryPush"}
Consuming(f) == f.op \in {"popTx", "tryPop"}

\* The cells of channel c that hold published bytes not yet handed out.
PublishedCells(c) ==
    {(heap.U32[TailWord(c)] + k) % module.capacity : k \in 0 .. Occupancy(c) - 1}

\* The cell the copy step of operation f is about to touch.
CopyCell(f) == (f.idx + f.i) % module.capacity

\* C28: publication order: a push stores the new head only after all of
\* its bytes are copied, a pop stores the new tail only after all of its
\* bytes are copied out; under any interleaving every cell a consumer reads
\* is a published one and holds the byte that was published there, and
\* every cell a producer writes is outside the published ones.
PublicationOrder ==
    \A f \in {frame, wframe} :
        /\ (Producing(f) /\ f.pc = "store") => f.i = f.toWrite
        /\ (Consuming(f) /\ f.pc = "store") => f.i = f.available
        /\ (Producing(f) /\ f.pc = "copy") => CopyCell(f) \notin PublishedCells(f.chan)
        /\ (Consuming(f) /\ f.pc = "copy") =>
               /\ CopyCell(f) \in PublishedCells(f.chan)
               /\ heap.U8[f.chan][CopyCell(f)]
                      = accepted[f.chan][Len(popped[f.chan]) + f.i + 1]

\* The two sides of TX are both in the middle of a copy of several bytes.
BothSidesCopying ==
    /\ frame.op = "popTx" /\ frame.pc = "copy" /\ frame.i >= 1
    /\ wframe.op = "tryPush" /\ wframe.pc = "copy" /\ wframe.i >= 1

(* ------------------------- overlapping calls --------------------------- *)

\* C29: a disconnect() only releases the connection that was open when it
\* was called: the steps it takes after an await leave alone the streams,
\* the reader, the writer and the device of a connection that connect()
\* opened since the call.
DisconnectSparesNewConnection ==
    [][\A g \in Opens :
           (disc.pc # "idle" /\ disc' # disc /\ g > disc.opens /\ g <= port.opens) =>
               /\ ends'[g] = ends[g]
               /\ usb.reader = g => usb'.reader = g
               /\ usb.writer = g => usb'.writer = g
               /\ g = port.opens => port' = port /\ usb'.device = usb.device]_vars

\* The read loops awaiting a chunk, and the write loops sleeping or writing.
ActiveReadLoops == {g \in Opens : rloop[g].pc = "read"}
ActiveTxLoops == {g \in Opens : tloop[g].pc \in {"sleep", "write"}}

\* C30: across any sequence of connect() and disconnect() calls at most one
\* read loop and at most one write loop are active, and each loop reads or
\* writes through the endpoint it acquired itself, never through the
\* endpoint of a later connection.
OneLoopEachOwnEndpoint ==
    /\ Cardinality(ActiveReadLoops) <= 1
    /\ Cardinality(ActiveTxLoops) <= 1
    /\ \A g \in Opens :
           /\ rloop[g].pc = "read" => rloop[g].via = g
           /\ tloop[g].pc = "write" => tloop[g].via = g

(* ------------------------- the hook's adapters ------------------------- *)

\* C31: sendCommand is all-or-nothing on Stdin: whatever Stdin holds when it
\* is called, Stdin gets the whole command followed by its line terminator
\* or nothing of it, never a truncated command or one without terminator.
SendCommandAllOrNothing ==
    \A text \in Commands :
        SendCommandRun(text).acc \in {<<>>, text \o <<Newline>>}

\* C32: in the serial hook every connect() that succeeds leaves a read loop
\* running on the port it opened, also when the read loop before it ended on
\* its own, without a call of disconnect().
SerialConnectStartsReadLoop ==
    [][(hook.connect.pc = "open" /\ hook'.connect.result = "true")
           => hook'.loop[port'.opens] = "read"]_vars

\* C33: the hook becomes ready only after the bind of the channels has been
\* attempted, so sendCommand and sendKey (sendInput) store nothing in Stdin
\* before the bind has run; while the hook is not ready a call of either
\* changes no shared memory and Stdin gets nothing.
ReadyOnlyAfterBind ==
    /\ [](isReady => (runtime = "initialized" /\ initResult # "none"))
    /\ [][accepted'["stdin"] # accepted["stdin"]
              => (isReady /\ initResult # "none")]_vars
    /\ [][(~isReady /\ offered'["stdin"] # offered["stdin"])
              => (heap' = heap /\ accepted' = accepted)]_vars

\* sendCommand or sendInput was called while the hook was not ready, and
\* Stdin got nothing.
SentWhileNotReady ==
    /\ ~isReady
    /\ offered["stdin"] >= 1
    /\ accepted["stdin"] = <<>>

(* ---------------------------- output properties ------------------------ *)

\* What onOutput is owed for the codes q: CR LF for a newline, else the
\* character of the code.
RECURSIVE Rendered(_)
Rendered(q) ==
    IF q = <<>> THEN <<>>
    ELSE (IF Head(q) = Newline THEN <<13, 10>> ELSE <<Head(q)>>) \o Rendered(Tail(q))

\* C34: every character the module writes to stdout or stderr reaches the
\* output callback, once and in the order written, a newline as CR LF: what
\* was delivered and what is pending make up what was written, and once the
\* module has written all it had to write nothing is pending; after each
\* call the pending buffer holds at most 100 characters.
OutputDelivered ==
    /\ stdio.delivered \o stdio.outputBuffer = Rendered(stdio.emitted)
    /\ Len(stdio.outputBuffer) <= FlushLimit
    /\ stdio.idle => stdio.outputBuffer = <<>>

(* --------------------------- handler properties ----------------------- *)

\* C35: connectDevice puts the connect line into Stdin if and only if
\* connect() returned true and the module is ready, and only once connect()
\* has returned; when connect() returned false or the module is not ready,
\* and at every other step, Stdin is left as it was.
ConnectLineIffConnectedAndReady ==
    [][IF ConnectReturned /\ app'.connectDevice.pc = "idle"
              /\ conn.result = "true" /\ isReady
       THEN accepted'["stdin"] = accepted["stdin"] \o HwConnect \o <<Newline>>
       ELSE accepted'["stdin"] = accepted["stdin"]]_vars

\* The port of open g is open: it was opened, and neither closed nor lost.
PortOpen(g) ==
    /\ g <= port.opens
    /\ ends[g].readable = "open" \/ ends[g].writable \in {"open", "closing"}

\* The hook listens on every port it opened until the port is lost; the
\* other opens are those of the WASM bridge.
SerialHoldsDevice == \E g \in Opens : PortOpen(g) /\ g \in hook.listening
WasmHoldsDevice == \E g \in Opens : PortOpen(g) /\ g \notin hook.listening

\* C36: at any time at most one of the two transports, the WASM bridge and
\* the serial hook, holds an open device, whatever the order of connect,
\* disconnect and mode switch, a mode switch made while a connect() awaits
\* the selection of the device included.
OneTransportHoldsDevice == ~(WasmHoldsDevice /\ SerialHoldsDevice)

====
